---------------------------- MODULE Spec2Model ----------------------------
(***************************************************************************)
(* Membership webhook servers of OperatorFoundation/memberships.            *)
(*                                                                         *)
(* The repository holds four builds of the same server:                    *)
(*   "modular"    part_003 (WebhookServer) + db.go (Database)               *)
(*   "monolithic" models.go (webhookHandler + Database.processWebhook)      *)
(*   "donation"   main.go (GiveLively events, payments, total_donated)      *)
(*   "paypal"     part_000 (PayPal subscription events)                     *)
(* Strings are TLA+ strings; the Go string functions the code calls        *)
(* (strings.ToLower, strings.TrimSpace, strings.Contains) are computed     *)
(* character by character.                                                 *)
(***************************************************************************)
EXTENDS Naturals, Sequences, FiniteSets, TLC

VARIABLES
    variant,          \* which build is running
    members,          \* table members: sequence of rows, row i has id i
    status_history,   \* table status_history: sequence of rows
    webhook_logs,     \* table webhook_logs: sequence of rows
    payments,         \* table payments (donation and PayPal builds)
    subscription_history, \* table subscription_history (PayPal build)
    req,              \* per handler goroutine: the request it is serving
    nreq,             \* number of requests received so far
    faults,           \* number of store statements that have failed
    nin,              \* normalizer run: the raw webhook fields
    nout,             \* normalizer run: the normalized fields, or NotRun
    batch,            \* batch reconciler: the run in progress or last reported
    twin              \* paired run: the store of the other Zapier build

vars == <<variant, members, status_history, webhook_logs, payments,
          subscription_history, req, nreq, faults, nin, nout, batch, twin>>

paymentVars == <<payments, subscription_history>>
storeVars == <<members, status_history, webhook_logs, paymentVars>>
normVars == <<nin, nout, batch, twin>>

(***************************************************************************)
(* Go string functions                                                     *)
(***************************************************************************)
UpperChars == "ABCDEFGHIJKLMNOPQRSTUVWXYZ"
LowerChars == "abcdefghijklmnopqrstuvwxyz"

CharAt(s, i) == SubSeq(s, i, i)

\* the lower-case letter of each upper-case letter
UpperToLower ==
    [c \in {CharAt(UpperChars, i) : i \in 1..Len(UpperChars)} |->
        CharAt(LowerChars,
               CHOOSE i \in 1..Len(UpperChars) : CharAt(UpperChars, i) = c)]

\* unicode.ToLower of one character (ASCII letters; others map to themselves)
LowerChar(c) == IF c \in DOMAIN UpperToLower THEN UpperToLower[c] ELSE c

RECURSIVE ToLower(_)
ToLower(s) ==
    IF Len(s) = 0 THEN ""
    ELSE LowerChar(CharAt(s, 1)) \o ToLower(SubSeq(s, 2, Len(s)))

\* unicode.IsSpace on the characters the inputs use
IsSpace(c) == c \in {" ", "\t", "\n", "\r"}

RECURSIVE TrimLeft(_)
TrimLeft(s) ==
    IF Len(s) > 0 /\ IsSpace(CharAt(s, 1))
    THEN TrimLeft(SubSeq(s, 2, Len(s)))
    ELSE s

RECURSIVE TrimRight(_)
TrimRight(s) ==
    IF Len(s) > 0 /\ IsSpace(CharAt(s, Len(s)))
    THEN TrimRight(SubSeq(s, 1, Len(s) - 1))
    ELSE s

TrimSpace(s) == TrimRight(TrimLeft(s))

Contains(s, sub) ==
    \E i \in 1..(Len(s) + 1) :
        /\ i + Len(sub) - 1 <= Len(s)
        /\ SubSeq(s, i, i + Len(sub) - 1) = sub

(***************************************************************************)
(* Event normalization                                                     *)
(***************************************************************************)
\* email = strings.ToLower(strings.TrimSpace(email))
NormalizeEmail(email) == ToLower(TrimSpace(email))

\* mutant: the suspended rung is tried before the cancelled rung
convertStatusSuspendedFirst(zapierStatus) ==
    LET statusLower == ToLower(zapierStatus) IN
    IF \/ Contains(statusLower, "succeed")
       \/ Contains(statusLower, "success")
       \/ Contains(statusLower, "active")
    THEN "active"
    ELSE IF \/ Contains(statusLower, "suspend")
            \/ Contains(statusLower, "pend")
    THEN "suspended"
    ELSE IF \/ Contains(statusLower, "fail")
            \/ Contains(statusLower, "cancel")
            \/ Contains(statusLower, "refund")
    THEN "cancelled"
    ELSE "active"

\* mutant: a status with no keyword is passed on as it came
convertStatusUnmapped(zapierStatus) ==
    LET statusLower == ToLower(zapierStatus) IN
    IF \/ Contains(statusLower, "succeed")
       \/ Contains(statusLower, "success")
       \/ Contains(statusLower, "active")
    THEN "active"
    ELSE IF \/ Contains(statusLower, "fail")
            \/ Contains(statusLower, "cancel")
            \/ Contains(statusLower, "refund")
    THEN "cancelled"
    ELSE IF \/ Contains(statusLower, "suspend")
            \/ Contains(statusLower, "pend")
    THEN "suspended"
    ELSE statusLower

\* WebhookServer.convertStatus (modular build)
convertStatus(zapierStatus) ==
    LET statusLower == ToLower(zapierStatus) IN
    IF \/ Contains(statusLower, "succeed")
       \/ Contains(statusLower, "success")
       \/ Contains(statusLower, "active")
    THEN "active"
    ELSE IF \/ Contains(statusLower, "fail")
            \/ Contains(statusLower, "cancel")
            \/ Contains(statusLower, "refund")
    THEN "cancelled"
    ELSE IF \/ Contains(statusLower, "suspend")
            \/ Contains(statusLower, "pend")
    THEN "suspended"
    ELSE "active"

\* mutant: the ladder compares the status as written, not lower-cased
memberStatusOfCaseSensitive(webhookStatus) ==
    LET statusLower == webhookStatus IN
    IF \/ Contains(statusLower, "succeed")
       \/ Contains(statusLower, "success")
       \/ Contains(statusLower, "active")
    THEN "active"
    ELSE IF \/ Contains(statusLower, "fail")
            \/ Contains(statusLower, "cancel")
            \/ Contains(statusLower, "refund")
    THEN "cancelled"
    ELSE IF \/ Contains(statusLower, "suspend")
            \/ Contains(statusLower, "pend")
    THEN "suspended"
    ELSE "active"

\* the status ladder inlined in Database.processWebhook (monolithic build)
memberStatusOf(webhookStatus) ==
    LET statusLower == ToLower(webhookStatus) IN
    IF \/ Contains(statusLower, "succeed")
       \/ Contains(statusLower, "success")
       \/ Contains(statusLower, "active")
    THEN "active"
    ELSE IF \/ Contains(statusLower, "fail")
            \/ Contains(statusLower, "cancel")
            \/ Contains(statusLower, "refund")
    THEN "cancelled"
    ELSE IF \/ Contains(statusLower, "suspend")
            \/ Contains(statusLower, "pend")
    THEN "suspended"
    ELSE "active"

\* WebhookServer.convertAnonymous (modular build)
\* a conversion that takes the text as it was sent
convertAnonymousVerbatim(anonStr) ==
    anonStr = "true" \/ anonStr = "yes" \/ anonStr = "1"

convertAnonymous(anonStr) ==
    LET anonLower == ToLower(TrimSpace(anonStr)) IN
    anonLower = "true" \/ anonLower = "yes" \/ anonLower = "1"

\* the anonymity conversion inlined in Database.processWebhook
isAnonymousOf(webhookAnonymous) ==
    LET anonLower == ToLower(TrimSpace(webhookAnonymous)) IN
    IF anonLower = "true" \/ anonLower = "yes" \/ anonLower = "1"
    THEN TRUE
    ELSE FALSE

(***************************************************************************)
(* Bounds and inputs                                                       *)
(***************************************************************************)
\* requests received in one run
MaxReq == 3
\* store statements that fail in one run
MaxFaults == 1

\* handler goroutines: net/http serves every request on its own goroutine
Handlers == {"h1", "h2"}
\* the goroutine used when requests do not overlap
SoleHandler == "h1"

\* config.WebhookSecret (non-empty: init() exits otherwise)
WebhookSecret == "s3cret"

Builds == {"modular", "monolithic", "donation", "paypal"}
ZapierBuilds == {"modular", "monolithic"}

NotRun == [done |-> FALSE]

\* MemberWebhook payloads (email, name, status, anonymous are JSON strings)
MemberWebhook(email, name, status, anonymous) ==
    [email |-> email, name |-> name, status |-> status, anonymous |-> anonymous]

\* payloads for one member (every name, anonymity and status case), one
\* with an unrecognized status, one with the same email written otherwise,
\* one for another member, one whose email is blank
NameInputs == {"", "Jane"}
StatusInputs == {"Succeeded", "Failed"}
AnonymousInputs == {"True", "no"}

Webhooks ==
    {MemberWebhook("A@b ", n, s, a) :
        n \in NameInputs, s \in StatusInputs, a \in AnonymousInputs}
    \cup {MemberWebhook("A@b ", "Jane", "foobar", "no"),
          MemberWebhook(" a@B", "", "Pending", "no"),
          MemberWebhook("A@B.com ", "Jane", "Payment Succeeded", "True"),
          MemberWebhook(" ", "Jane", "Succeeded", "no")}

\* the Authorization header (scheme and what follows it; for Basic the
\* base64-decoded text) and the X-Webhook-Secret header
Credentials(scheme, rest, xsecret) ==
    [scheme |-> scheme, rest |-> rest, xsecret |-> xsecret]

NoCredentials == Credentials("", "", "")
BearerOk == Credentials("Bearer", WebhookSecret, "")

CredentialInputs ==
    { NoCredentials,
      BearerOk,
      Credentials("Bearer", "guess", ""),
      Credentials("Basic", "zapier:" \o WebhookSecret, ""),
      Credentials("Basic", WebhookSecret \o ":x", ""),
      Credentials("Basic", WebhookSecret, ""),
      Credentials("Basic", "zapier:guess", "guess"),
      Credentials("", "", WebhookSecret) }

HttpRequest(method, cred, jsonOk, webhook) ==
    [method |-> method, cred |-> cred, jsonOk |-> jsonOk, webhook |-> webhook]

DefaultWebhook == MemberWebhook("c@d", "Jane", "Succeeded", "no")

\* Every payload arrives as an authorized POST; the other methods, the other
\* credentials and an unparsable body arrive with one fixed payload.
Requests ==
    {HttpRequest("POST", BearerOk, TRUE, w) : w \in Webhooks}
    \cup {HttpRequest("POST", c, TRUE, DefaultWebhook) : c \in CredentialInputs}
    \cup {HttpRequest("GET", BearerOk, TRUE, DefaultWebhook),
          HttpRequest("POST", BearerOk, FALSE, DefaultWebhook)}

\* inputs of the normalizer runs
NormEmailInputs == {"A@B.com ", "a@b.com", "\tJo@X.org\n", " ", ""}
NormStatusInputs ==
    {"Payment Succeeded", "Success", "active", "Failed", "Refund - Cancelled",
     "CANCELED", "Suspended", "Pending Review", "foobar", "",
     "Cancelled (was Active)", "Unsuccessful, cancel", "Suspended, then cancelled",
     "Refund pending"}
NormAnonymousInputs == {"True", "true", " YES ", "1", "False", "no", "", "0", "y", "tru e"}

(***************************************************************************)
(* Authorization                                                           *)
(***************************************************************************)
\* strings.SplitN(s, ":", 2)
SplitN2(s) ==
    IF Contains(s, ":")
    THEN LET i == CHOOSE j \in 1..Len(s) :
                    /\ CharAt(s, j) = ":"
                    /\ \A k \in 1..(j - 1) : CharAt(s, k) # ":"
         IN  <<SubSeq(s, 1, i - 1), SubSeq(s, i + 1, Len(s))>>
    ELSE <<s>>

\* mutant: only the password slot of Basic credentials is compared
isAuthorizedPasswordOnly(cred) ==
    IF cred.scheme = "Bearer" /\ cred.rest = WebhookSecret
    THEN TRUE
    ELSE IF /\ cred.scheme = "Basic"
            /\ LET parts == SplitN2(cred.rest) IN
               /\ Len(parts) = 2
               /\ parts[2] = WebhookSecret
    THEN TRUE
    ELSE IF cred.xsecret = WebhookSecret
    THEN TRUE
    ELSE FALSE

\* WebhookServer.isAuthorized; the checks inlined in the monolithic
\* webhookHandler accept the same requests
isAuthorized(cred) ==
    IF cred.scheme = "Bearer" /\ cred.rest = WebhookSecret
    THEN TRUE
    ELSE IF /\ cred.scheme = "Basic"
            /\ LET parts == SplitN2(cred.rest) IN
               /\ Len(parts) = 2
               /\ (parts[2] = WebhookSecret \/ parts[1] = WebhookSecret)
    THEN TRUE
    ELSE IF cred.xsecret = WebhookSecret
    THEN TRUE
    ELSE FALSE

(***************************************************************************)
(* Tables                                                                  *)
(***************************************************************************)
\* members(id SERIAL, email UNIQUE NOT NULL, name, is_anonymous, status,
\*         first_seen, last_updated); last_updated is the logical time nreq
MemberRow(id, email, name, is_anonymous, status, last_updated) ==
    [id |-> id, email |-> email, name |-> name, is_anonymous |-> is_anonymous,
     status |-> status, last_updated |-> last_updated]

\* status_history(id SERIAL, member_id, status, changed_at)
HistoryRow(member_id, status) == [member_id |-> member_id, status |-> status]

\* webhook_logs(id SERIAL, received_at, email, status, payload)
LogRow(email, status) == [email |-> email, status |-> status]

\* CURRENT_TIMESTAMP
Now == nreq

\* ids of the rows of SELECT ... FROM members WHERE email = $1
MembersWithEmail(email) ==
    {i \in 1..Len(members) : members[i].email = email}

\* mutant: members.email without its UNIQUE constraint
EmailNeverRejected(email) == FALSE

\* the UNIQUE constraint on members.email rejects the INSERT
EmailUniqueViolation(email) == MembersWithEmail(email) # {}

\* mutant: the INSERT leaves the status to the column's default
MembersAfterInsertDefaultStatus(email, name, isAnonymous, status) ==
    Append(members,
           MemberRow(Len(members) + 1, email, name, isAnonymous, "pending", Now))

\* INSERT INTO members (...) VALUES ($1, $2, $3, $4, ...) RETURNING id
MembersAfterInsert(email, name, isAnonymous, status) ==
    Append(members,
           MemberRow(Len(members) + 1, email, name, isAnonymous, status, Now))

\* mutant: the name column is overwritten with whatever name comes in
UpdatedNameOverwritten(oldName, isAnonymous, name) == name

\* the name column of UPDATE members SET name = CASE ... END
UpdatedName(oldName, isAnonymous, name) ==
    IF isAnonymous = TRUE THEN oldName
    ELSE IF name = "" THEN oldName
    ELSE name

\* mutant: last_updated is refreshed only when the status changes
MembersAfterUpdateLazy(isAnonymous, name, status, memberID) ==
    [i \in 1..Len(members) |->
        IF members[i].id = memberID
        THEN [members[i] EXCEPT
                !.name = UpdatedName(members[i].name, isAnonymous, name),
                !.is_anonymous = isAnonymous,
                !.status = status,
                !.last_updated = IF members[i].status = status THEN @ ELSE Now]
        ELSE members[i]]

\* UPDATE members SET name = CASE .. END, is_anonymous = $1, status = $3,
\*                    last_updated = CURRENT_TIMESTAMP WHERE id = $4
MembersAfterUpdate(isAnonymous, name, status, memberID) ==
    [i \in 1..Len(members) |->
        IF members[i].id = memberID
        THEN [members[i] EXCEPT
                !.name = UpdatedName(members[i].name, isAnonymous, name),
                !.is_anonymous = isAnonymous,
                !.status = status,
                !.last_updated = Now]
        ELSE members[i]]

(***************************************************************************)
(* Requests being served                                                   *)
(***************************************************************************)
NoWebhook == MemberWebhook("", "", "", "")

\* a goroutine that serves nothing yet
IdleReq ==
    [pc |-> "idle", method |-> "", cred |-> NoCredentials, jsonOk |-> FALSE,
     webhook |-> NoWebhook, email |-> "", name |-> "", isAnonymous |-> FALSE,
     status |-> "", memberID |-> 0, currentStatus |-> "",
     subscriptionID |-> "", payerID |-> "", failed |-> {},
     err |-> "", response |-> 0, route |-> "", body |-> <<>>]

Free(p) == req[p].pc \in {"idle", "done"}

\* what is left of a request when its handler has returned: the request
\* line and headers, the response, the error the reconciliation returned
\* and the statements that failed; the handler's locals are gone
Returned(rq, err, code) ==
    [IdleReq EXCEPT !.pc = "done", !.method = rq.method, !.cred = rq.cred,
                    !.jsonOk = rq.jsonOk, !.failed = rq.failed,
                    !.err = err, !.response = code]

\* http.Error(w, ..., code); return
Reject(rq, code) == Returned(rq, "", code)

\* mutant: an error of the reconciliation is answered with 500
AcknowledgeOrFail(rq, err) == Returned(rq, err, IF err = "" THEN 200 ELSE 500)

\* mutant: a validation error is answered with 400
AcknowledgeBadRequest(rq, err) ==
    Returned(rq, err, IF err = "email is required" THEN 400 ELSE 200)

\* the end of webhookHandler: the error of the reconciliation is logged,
\* w.WriteHeader(http.StatusOK); fmt.Fprint(w, "OK")
Acknowledge(rq, err) == Returned(rq, err, 200)

\* the error of a statement returned as it is (return err)
DriverError == "driver error"

\* a store statement may fail while the run's failures are not used up
MayFail == faults < MaxFaults

\* the request after statement stmt has failed
Failing(rq, stmt) == [rq EXCEPT !.failed = @ \cup {stmt}]

\* the fields of the request as the handler reads them
Arrived(r) ==
    [IdleReq EXCEPT !.method = r.method, !.cred = r.cred, !.jsonOk = r.jsonOk]

(***************************************************************************)
(* Modular build: WebhookServer.webhookHandler, Database.LogWebhook,       *)
(* Database.ProcessMember                                                  *)
(***************************************************************************)
\* webhookHandler up to the conversions: method, authorization, body, JSON,
\* convertStatus, convertAnonymous
webhookHandlerStart(r) ==
    IF r.method # "POST" THEN Reject(Arrived(r), 405)
    ELSE IF ~isAuthorized(r.cred) THEN Reject(Arrived(r), 401)
    ELSE IF ~r.jsonOk THEN Reject(Arrived(r), 400)
    ELSE [Arrived(r) EXCEPT
            !.pc = "log",
            !.webhook = r.webhook,
            !.status = convertStatus(r.webhook.status),
            !.isAnonymous = convertAnonymous(r.webhook.anonymous)]

\* goroutine p starts serving a request; arrivals are the requests as
\* webhookHandlerStart leaves them
webhookHandler(p, arrivals) ==
    /\ variant = "modular"
    /\ Free(p)
    /\ nreq < MaxReq
    /\ nreq' = nreq + 1
    /\ \E rq \in arrivals : req' = [req EXCEPT ![p] = rq]
    /\ UNCHANGED <<variant, storeVars, faults, normVars>>

\* mutant: ProcessMember without the check of the email
ProcessMemberEntryUnvalidated(rq) ==
    [rq EXCEPT !.pc = "select",
               !.email = NormalizeEmail(rq.webhook.email),
               !.name = IF rq.isAnonymous THEN "" ELSE rq.webhook.name]

\* the start of ProcessMember: normalize and validate the email, drop the
\* name of an anonymous member
ProcessMemberEntry(rq) ==
    LET email == NormalizeEmail(rq.webhook.email) IN
    IF email = ""
    THEN Acknowledge(rq, "email is required")
    ELSE [rq EXCEPT !.pc = "select",
                    !.email = email,
                    !.name = IF rq.isAnonymous THEN "" ELSE rq.webhook.name]

\* mutant: a failed audit-log write ends the request
LogWebhookFatal(p) ==
    /\ variant = "modular"
    /\ req[p].pc = "log"
    /\ \/ /\ webhook_logs' =
               Append(webhook_logs, LogRow(req[p].webhook.email, req[p].status))
          /\ req' = [req EXCEPT ![p] = ProcessMemberEntry(@)]
          /\ UNCHANGED faults
       \/ /\ MayFail
          /\ faults' = faults + 1
          /\ req' = [req EXCEPT ![p] =
                        Acknowledge(Failing(@, "log"), "failed to log webhook")]
          /\ UNCHANGED webhook_logs
    /\ UNCHANGED <<variant, members, status_history, paymentVars, nreq, normVars>>

\* s.db.LogWebhook(webhook.Email, status, body): a failure is only logged;
\* then ProcessMember is entered
LogWebhook(p) ==
    /\ variant = "modular"
    /\ req[p].pc = "log"
    /\ \/ /\ webhook_logs' =
               Append(webhook_logs, LogRow(req[p].webhook.email, req[p].status))
          /\ req' = [req EXCEPT ![p] = ProcessMemberEntry(@)]
          /\ UNCHANGED faults
       \/ /\ MayFail
          /\ faults' = faults + 1
          /\ req' = [req EXCEPT ![p] = ProcessMemberEntry(Failing(@, "log"))]
          /\ UNCHANGED webhook_logs
    /\ UNCHANGED <<variant, members, status_history, paymentVars, nreq, normVars>>

(***************************************************************************)
(* Monolithic build: webhookHandler, Database.processWebhook               *)
(***************************************************************************)
\* processWebhook up to the log statement: normalize and validate the
\* email, map the status, convert the anonymity, choose the name to store
\* an entry that hands the name to the store whatever the anonymity
processWebhookEntryKeepingName(rq) ==
    LET email == NormalizeEmail(rq.webhook.email)
    IN  IF email = ""
        THEN Acknowledge(rq, "email is required")
        ELSE [rq EXCEPT !.pc = "log",
                        !.email = email,
                        !.status = memberStatusOf(rq.webhook.status),
                        !.isAnonymous = isAnonymousOf(rq.webhook.anonymous),
                        !.name = rq.webhook.name]

processWebhookEntry(rq) ==
    LET email == NormalizeEmail(rq.webhook.email)
        isAnonymous == isAnonymousOf(rq.webhook.anonymous)
    IN  IF email = ""
        THEN Acknowledge(rq, "email is required")
        ELSE [rq EXCEPT !.pc = "log",
                        !.email = email,
                        !.status = memberStatusOf(rq.webhook.status),
                        !.isAnonymous = isAnonymous,
                        !.name = IF isAnonymous THEN "" ELSE rq.webhook.name]

\* webhookHandler: method, authorization, body, JSON, then processWebhook
monolithicHandlerStart(r) ==
    IF r.method # "POST" THEN Reject(Arrived(r), 405)
    ELSE IF ~isAuthorized(r.cred) THEN Reject(Arrived(r), 401)
    ELSE IF ~r.jsonOk THEN Reject(Arrived(r), 400)
    ELSE processWebhookEntry([Arrived(r) EXCEPT !.webhook = r.webhook])

\* goroutine p starts serving a request; arrivals are the requests as
\* monolithicHandlerStart leaves them
monolithicWebhookHandler(p, arrivals) ==
    /\ variant = "monolithic"
    /\ Free(p)
    /\ nreq < MaxReq
    /\ nreq' = nreq + 1
    /\ \E rq \in arrivals : req' = [req EXCEPT ![p] = rq]
    /\ UNCHANGED <<variant, storeVars, faults, normVars>>

\* INSERT INTO webhook_logs (email, status, payload): a failure is only logged
processWebhookLog(p) ==
    /\ variant = "monolithic"
    /\ req[p].pc = "log"
    /\ \/ /\ webhook_logs' =
               Append(webhook_logs, LogRow(req[p].email, req[p].status))
          /\ req' = [req EXCEPT ![p].pc = "select"]
          /\ UNCHANGED faults
       \/ /\ MayFail
          /\ faults' = faults + 1
          /\ req' = [req EXCEPT ![p] = [Failing(@, "log") EXCEPT !.pc = "select"]]
          /\ UNCHANGED webhook_logs
    /\ UNCHANGED <<variant, members, status_history, paymentVars, nreq, normVars>>

(***************************************************************************)
(* The find-or-create statements, the same in Database.ProcessMember       *)
(* (db.go) and in Database.processWebhook (models.go)                      *)
(***************************************************************************)
\* mutant: the history row is written whether or not the status changed
StatusChangedAlways(currentStatus, status) == TRUE

\* if currentStatus != status
StatusChanged(currentStatus, status) == currentStatus # status

\* SELECT id, status FROM members WHERE email = $1, and the branch on err
ProcessMemberSelect(p) ==
    /\ variant \in ZapierBuilds
    /\ req[p].pc = "select"
    /\ \/ \* the query fails: return "database error"
          /\ MayFail
          /\ faults' = faults + 1
          /\ req' = [req EXCEPT ![p] =
                       Acknowledge(Failing(@, "select"), "database error")]
       \/ \* sql.ErrNoRows
          /\ MembersWithEmail(req[p].email) = {}
          /\ req' = [req EXCEPT ![p].pc = "insert"]
          /\ UNCHANGED faults
       \/ \* a row is scanned
          /\ \E i \in MembersWithEmail(req[p].email) :
               req' = [req EXCEPT ![p].pc = "update",
                                  ![p].memberID = members[i].id,
                                  ![p].currentStatus = members[i].status]
          /\ UNCHANGED faults
    /\ UNCHANGED <<variant, storeVars, nreq, normVars>>

\* INSERT INTO members ... RETURNING id
ProcessMemberInsert(p) ==
    /\ variant \in ZapierBuilds
    /\ req[p].pc = "insert"
    /\ \/ \* the statement fails: return "failed to create member"
          /\ MayFail
          /\ faults' = faults + 1
          /\ req' = [req EXCEPT ![p] =
                       Acknowledge(Failing(@, "insert"), "failed to create member")]
          /\ UNCHANGED members
       \/ \* the UNIQUE constraint rejects it: return "failed to create member"
          /\ EmailUniqueViolation(req[p].email)
          /\ req' = [req EXCEPT ![p] = Acknowledge(@, "failed to create member")]
          /\ UNCHANGED <<members, faults>>
       \/ /\ ~EmailUniqueViolation(req[p].email)
          /\ members' = MembersAfterInsert(req[p].email, req[p].name,
                                           req[p].isAnonymous, req[p].status)
          /\ req' = [req EXCEPT ![p].pc = "history",
                                ![p].memberID = Len(members) + 1]
          /\ UNCHANGED faults
    /\ UNCHANGED <<variant, status_history, webhook_logs, paymentVars, nreq, normVars>>

\* mutant: the branch on the status compares with the status stored at
\* the time of the UPDATE, not with the one the SELECT read
ProcessMemberUpdateRereading(p) ==
    /\ variant \in ZapierBuilds
    /\ req[p].pc = "update"
    /\ \/ /\ MayFail
          /\ faults' = faults + 1
          /\ req' = [req EXCEPT ![p] =
                       Acknowledge(Failing(@, "update"), "failed to update member")]
          /\ UNCHANGED members
       \/ /\ members' = MembersAfterUpdate(req[p].isAnonymous, req[p].name,
                                           req[p].status, req[p].memberID)
          /\ req' = [req EXCEPT ![p] =
                       IF StatusChanged(members[req[p].memberID].status, req[p].status)
                       THEN [@ EXCEPT !.pc = "history"]
                       ELSE Acknowledge(@, "")]
          /\ UNCHANGED faults
    /\ UNCHANGED <<variant, status_history, webhook_logs, paymentVars, nreq, normVars>>

\* UPDATE members SET ... WHERE id = $4, then the branch on the status
ProcessMemberUpdate(p) ==
    /\ variant \in ZapierBuilds
    /\ req[p].pc = "update"
    /\ \/ \* the statement fails: return "failed to update member"
          /\ MayFail
          /\ faults' = faults + 1
          /\ req' = [req EXCEPT ![p] =
                       Acknowledge(Failing(@, "update"), "failed to update member")]
          /\ UNCHANGED members
       \/ /\ members' = MembersAfterUpdate(req[p].isAnonymous, req[p].name,
                                           req[p].status, req[p].memberID)
          /\ req' = [req EXCEPT ![p] =
                       IF StatusChanged(req[p].currentStatus, req[p].status)
                       THEN [@ EXCEPT !.pc = "history"]
                       ELSE Acknowledge(@, "")]
          /\ UNCHANGED faults
    /\ UNCHANGED <<variant, status_history, webhook_logs, paymentVars, nreq, normVars>>

\* INSERT INTO status_history (member_id, status): its error is dropped,
\* ProcessMember returns nil
ProcessMemberHistory(p) ==
    /\ variant \in ZapierBuilds
    /\ req[p].pc = "history"
    /\ \/ /\ status_history' =
               Append(status_history, HistoryRow(req[p].memberID, req[p].status))
          /\ req' = [req EXCEPT ![p] = Acknowledge(@, "")]
          /\ UNCHANGED faults
       \/ /\ MayFail
          /\ faults' = faults + 1
          /\ req' = [req EXCEPT ![p] = Acknowledge(Failing(@, "history"), "")]
          /\ UNCHANGED status_history
    /\ UNCHANGED <<variant, members, webhook_logs, paymentVars, nreq, normVars>>

(***************************************************************************)
(* Modular build: Database.UpdateMemberStatus, the status update the data  *)
(* layer offers to its callers                                             *)
(***************************************************************************)
\* the arguments of a call of UpdateMemberStatus
StatusUpdateCall(email, status) == [email |-> email, status |-> status]

StatusUpdateCalls ==
    {StatusUpdateCall(e, s) : e \in {"A@b ", "q@r"}, s \in {"cancelled", "active"}}

\* email = strings.ToLower(strings.TrimSpace(email))
UpdateMemberStatusStart(call) ==
    [IdleReq EXCEPT !.email = NormalizeEmail(call.email), !.status = call.status]

\* UPDATE members SET status = $1, last_updated = CURRENT_TIMESTAMP
\* WHERE email = $2, at the logical time of this call
\* an UPDATE that stamps the row and leaves its status
MembersAfterStatusSetStamping(email, status, now) ==
    [i \in 1..Len(members) |->
        IF members[i].email = email
        THEN [members[i] EXCEPT !.last_updated = now]
        ELSE members[i]]

MembersAfterStatusSet(email, status, now) ==
    [i \in 1..Len(members) |->
        IF members[i].email = email
        THEN [members[i] EXCEPT !.status = status, !.last_updated = now]
        ELSE members[i]]

\* UpdateMemberStatus up to its UPDATE: a failure is returned, no affected
\* row is 'member not found'
UpdateMemberStatus(p, arrivals) ==
    /\ variant = "modular"
    /\ Free(p)
    /\ nreq < MaxReq
    /\ nreq' = nreq + 1
    /\ \E rq \in arrivals :
        \/ /\ MayFail
           /\ faults' = faults + 1
           /\ req' = [req EXCEPT ![p] =
                         Returned(Failing(rq, "set_status"), DriverError, 0)]
           /\ UNCHANGED members
        \/ /\ MembersWithEmail(rq.email) = {}
           /\ req' = [req EXCEPT ![p] = Returned(rq, "member not found", 0)]
           /\ UNCHANGED <<members, faults>>
        \/ /\ MembersWithEmail(rq.email) # {}
           /\ members' = MembersAfterStatusSet(rq.email, rq.status, nreq + 1)
           /\ req' = [req EXCEPT ![p] = [rq EXCEPT !.pc = "set_select"]]
           /\ UNCHANGED faults
    /\ UNCHANGED <<variant, status_history, webhook_logs, paymentVars, normVars>>

\* db.QueryRow(SELECT id FROM members WHERE email = $1).Scan(&memberID): the
\* error is dropped, memberID stays 0 and nil is returned
UpdateMemberStatusSelect(p) ==
    /\ variant = "modular"
    /\ req[p].pc = "set_select"
    /\ \/ /\ MayFail
          /\ faults' = faults + 1
          /\ req' = [req EXCEPT ![p] = Returned(Failing(@, "set_select"), "", 0)]
       \/ /\ \E i \in MembersWithEmail(req[p].email) :
                req' = [req EXCEPT ![p].memberID = members[i].id,
                                   ![p].pc = "set_history"]
          /\ UNCHANGED faults
    /\ UNCHANGED <<variant, storeVars, nreq, normVars>>

\* if memberID > 0: INSERT INTO status_history (member_id, status), its
\* error dropped; return nil
\* an UpdateMemberStatus that returns without its history row
UpdateMemberStatusHistorySkipping(p) ==
    /\ variant = "modular"
    /\ req[p].pc = "set_history"
    /\ req' = [req EXCEPT ![p] = Returned(@, "", 0)]
    /\ UNCHANGED <<variant, storeVars, nreq, faults, normVars>>

UpdateMemberStatusHistory(p) ==
    /\ variant = "modular"
    /\ req[p].pc = "set_history"
    /\ \/ /\ status_history' =
               Append(status_history, HistoryRow(req[p].memberID, req[p].status))
          /\ req' = [req EXCEPT ![p] = Returned(@, "", 0)]
          /\ UNCHANGED faults
       \/ /\ MayFail
          /\ faults' = faults + 1
          /\ req' = [req EXCEPT ![p] = Returned(Failing(@, "set_history"), "", 0)]
          /\ UNCHANGED status_history
    /\ UNCHANGED <<variant, members, webhook_logs, paymentVars, nreq, normVars>>

(***************************************************************************)
(* Normalizer runs: the conversions applied to one raw payload             *)
(***************************************************************************)
NormWebhooks ==
    {MemberWebhook(e, n, s, a) :
        e \in NormEmailInputs, n \in NameInputs,
        s \in NormStatusInputs, a \in NormAnonymousInputs}

\* the normalized event: the converted status and anonymity, the email and
\* the name the reconciliation will use, the validation error
Normalized(status, isAnonymous, entered) ==
    [done |-> TRUE, status |-> status, isAnonymous |-> isAnonymous,
     email |-> entered.email, name |-> entered.name, err |-> entered.err]

\* the modular handler's conversions followed by the start of ProcessMember
modularNormalize ==
    /\ variant = "modular"
    /\ nout = NotRun
    /\ LET converted == webhookHandlerStart(HttpRequest("POST", BearerOk, TRUE, nin))
           entered == ProcessMemberEntry(converted)
       IN  nout' = Normalized(converted.status, converted.isAnonymous, entered)
    /\ UNCHANGED <<variant, storeVars, req, nreq, faults, nin, batch, twin>>

\* the conversions at the start of the monolithic processWebhook
monolithicNormalize ==
    /\ variant = "monolithic"
    /\ nout = NotRun
    /\ LET entered == monolithicHandlerStart(HttpRequest("POST", BearerOk, TRUE, nin))
       IN  nout' = Normalized(entered.status, entered.isAnonymous, entered)
    /\ UNCHANGED <<variant, storeVars, req, nreq, faults, nin, batch, twin>>

(***************************************************************************)
(* Donation build (GiveLively): webhookHandler, Database.processWebhook,   *)
(* handleNewSubscription, handleCancellation, handlePayment,               *)
(* handleFailedPayment                                                     *)
(***************************************************************************)
\* MemberWebhook of the donation build (amount in whole dollars)
DonationWebhook(email, name, amount, donation_id, event_type) ==
    [email |-> email, name |-> name, amount |-> amount,
     donation_id |-> donation_id, event_type |-> event_type]

\* members(id SERIAL, email UNIQUE NOT NULL, name, subscription_id UNIQUE,
\*         status, cancelled_date, total_donated, ...); cancelled_date is
\* TRUE when a date is set and FALSE when it is NULL
DonorRow(id, email, name, subscription_id, status, cancelled_date, total_donated) ==
    [id |-> id, email |-> email, name |-> name,
     subscription_id |-> subscription_id, status |-> status,
     cancelled_date |-> cancelled_date, total_donated |-> total_donated]

\* payments(id SERIAL, member_id, amount, payment_date, donation_id, notes)
PaymentRow(member_id, amount, donation_id, notes) ==
    [member_id |-> member_id, amount |-> amount, donation_id |-> donation_id,
     notes |-> notes]

\* webhook_logs(id SERIAL, received_at, event_type, email, payload, processed)
EventLogRow(event_type, email) == [event_type |-> event_type, email |-> email]

\* ids of the rows of ... FROM members WHERE email = $1 OR subscription_id = $2
MembersWithEmailOrSubscription(email, donationID) ==
    {i \in 1..Len(members) :
        members[i].email = email \/ members[i].subscription_id = donationID}

\* the UNIQUE constraint on members.subscription_id rejects the value for
\* member memberID (0: a new row)
SubscriptionUniqueViolation(donationID, memberID) ==
    \E i \in 1..Len(members) :
        members[i].id # memberID /\ members[i].subscription_id = donationID

\* COALESCE(NULLIF($1, ''), column)
CoalesceNullIf(value, column) == IF value = "" THEN column ELSE value

\* webhookHandler up to processWebhook: method, bearer token, body, JSON
donationHandlerStart(r) ==
    IF r.method # "POST" THEN Reject(Arrived(r), 405)
    ELSE IF ~(r.cred.scheme = "Bearer" /\ r.cred.rest = WebhookSecret)
    THEN Reject(Arrived(r), 401)
    ELSE IF ~r.jsonOk THEN Reject(Arrived(r), 400)
    ELSE [Arrived(r) EXCEPT !.pc = "log", !.webhook = r.webhook]

\* goroutine p starts serving a request of the donation build
donationWebhookHandler(p, arrivals) ==
    /\ variant = "donation"
    /\ Free(p)
    /\ nreq < MaxReq
    /\ nreq' = nreq + 1
    /\ \E rq \in arrivals : req' = [req EXCEPT ![p] = rq]
    /\ UNCHANGED <<variant, storeVars, faults, normVars>>

\* mutant: a payment event is handled like a new subscription
donationDispatchCreating(rq) ==
    LET type == rq.webhook.event_type
        entered == [rq EXCEPT !.email = NormalizeEmail(rq.webhook.email)]
    IN  IF type \in {"new_subscription", "new_recurring", "payment", "payment_received"}
        THEN [entered EXCEPT !.pc = "new_select"]
        ELSE IF type \in {"cancelled", "subscription_cancelled"}
        THEN [entered EXCEPT !.pc = "cancel"]
        ELSE IF type \in {"failed", "payment_failed"}
        THEN [entered EXCEPT !.pc = "fail_update"]
        ELSE Acknowledge(rq, "")

\* switch webhook.EventType: each handler first normalizes the email
donationDispatch(rq) ==
    LET type == rq.webhook.event_type
        entered == [rq EXCEPT !.email = NormalizeEmail(rq.webhook.email)]
    IN  IF type \in {"new_subscription", "new_recurring"}
        THEN [entered EXCEPT !.pc = "new_select"]
        ELSE IF type \in {"cancelled", "subscription_cancelled"}
        THEN [entered EXCEPT !.pc = "cancel"]
        ELSE IF type \in {"payment", "payment_received"}
        THEN [entered EXCEPT !.pc = "pay_select"]
        ELSE IF type \in {"failed", "payment_failed"}
        THEN [entered EXCEPT !.pc = "fail_update"]
        ELSE Acknowledge(rq, "")

\* processWebhook: INSERT INTO webhook_logs (event_type, email, payload) with
\* the email as received, a failure is only logged; then the switch
donationProcessWebhook(p) ==
    /\ variant = "donation"
    /\ req[p].pc = "log"
    /\ \/ /\ webhook_logs' =
               Append(webhook_logs,
                      EventLogRow(req[p].webhook.event_type, req[p].webhook.email))
          /\ req' = [req EXCEPT ![p] = donationDispatch(@)]
          /\ UNCHANGED faults
       \/ /\ MayFail
          /\ faults' = faults + 1
          /\ req' = [req EXCEPT ![p] = donationDispatch(Failing(@, "log"))]
          /\ UNCHANGED webhook_logs
    /\ UNCHANGED <<variant, members, status_history, paymentVars, nreq, normVars>>

\* handleNewSubscription: SELECT id FROM members WHERE email = $1
handleNewSubscriptionSelect(p) ==
    /\ variant = "donation"
    /\ req[p].pc = "new_select"
    /\ \/ /\ MayFail
          /\ faults' = faults + 1
          /\ req' = [req EXCEPT ![p] =
                       Acknowledge(Failing(@, "new_select"), "database error")]
       \/ /\ MembersWithEmail(req[p].email) = {}
          /\ req' = [req EXCEPT ![p].pc = "new_insert"]
          /\ UNCHANGED faults
       \/ /\ \E id \in MembersWithEmail(req[p].email) :
                req' = [req EXCEPT ![p].pc = "new_update", ![p].memberID = id]
          /\ UNCHANGED faults
    /\ UNCHANGED <<variant, storeVars, nreq, normVars>>

\* handleNewSubscription: INSERT INTO members (...) VALUES ($1, $2, $3,
\* 'active', ...) RETURNING id
handleNewSubscriptionInsert(p) ==
    /\ variant = "donation"
    /\ req[p].pc = "new_insert"
    /\ \/ /\ MayFail
          /\ faults' = faults + 1
          /\ req' = [req EXCEPT ![p] =
                       Acknowledge(Failing(@, "new_insert"), "failed to create member")]
          /\ UNCHANGED members
       \/ /\ \/ EmailUniqueViolation(req[p].email)
             \/ SubscriptionUniqueViolation(req[p].webhook.donation_id, 0)
          /\ req' = [req EXCEPT ![p] = Acknowledge(@, "failed to create member")]
          /\ UNCHANGED <<members, faults>>
       \/ /\ ~EmailUniqueViolation(req[p].email)
          /\ ~SubscriptionUniqueViolation(req[p].webhook.donation_id, 0)
          /\ members' =
               Append(members,
                      DonorRow(Len(members) + 1, req[p].email, req[p].webhook.name,
                               req[p].webhook.donation_id, "active", FALSE, 0))
          /\ req' = [req EXCEPT ![p].pc = "new_payment",
                                ![p].memberID = Len(members) + 1]
          /\ UNCHANGED faults
    /\ UNCHANGED <<variant, status_history, webhook_logs, paymentVars, nreq, normVars>>

\* handleNewSubscription: UPDATE members SET name = COALESCE(NULLIF($1, ''),
\* name), subscription_id = COALESCE(NULLIF($2, ''), subscription_id),
\* status = 'active', cancelled_date = NULL, ... WHERE id = $7
handleNewSubscriptionUpdate(p) ==
    /\ variant = "donation"
    /\ req[p].pc = "new_update"
    /\ LET id == req[p].memberID
           subscription ==
               CoalesceNullIf(req[p].webhook.donation_id, members[id].subscription_id)
       IN \/ /\ MayFail
             /\ faults' = faults + 1
             /\ req' = [req EXCEPT ![p] =
                          Acknowledge(Failing(@, "new_update"), "failed to update member")]
             /\ UNCHANGED members
          \/ /\ SubscriptionUniqueViolation(subscription, id)
             /\ req' = [req EXCEPT ![p] = Acknowledge(@, "failed to update member")]
             /\ UNCHANGED <<members, faults>>
          \/ /\ ~SubscriptionUniqueViolation(subscription, id)
             /\ members' =
                  [members EXCEPT ![id] =
                      [@ EXCEPT !.name = CoalesceNullIf(req[p].webhook.name, @),
                                !.subscription_id = subscription,
                                !.status = "active",
                                !.cancelled_date = FALSE]]
             /\ req' = [req EXCEPT ![p].pc = "new_payment"]
             /\ UNCHANGED faults
    /\ UNCHANGED <<variant, status_history, webhook_logs, paymentVars, nreq, normVars>>

\* handleNewSubscription: INSERT INTO payments (...); a failure is only logged
handleNewSubscriptionPayment(p) ==
    /\ variant = "donation"
    /\ req[p].pc = "new_payment"
    /\ \/ /\ payments' =
               Append(payments,
                      PaymentRow(req[p].memberID, req[p].webhook.amount,
                                 req[p].webhook.donation_id,
                                 "Initial subscription payment"))
          /\ req' = [req EXCEPT ![p].pc = "new_total"]
          /\ UNCHANGED faults
       \/ /\ MayFail
          /\ faults' = faults + 1
          /\ req' = [req EXCEPT ![p] = [Failing(@, "new_payment") EXCEPT !.pc = "new_total"]]
          /\ UNCHANGED payments
    /\ UNCHANGED <<variant, members, status_history, webhook_logs,
                   subscription_history, nreq, normVars>>

\* handleNewSubscription: UPDATE members SET total_donated = total_donated +
\* $1 WHERE id = $2; its error is assigned and never read; return nil
handleNewSubscriptionTotal(p) ==
    /\ variant = "donation"
    /\ req[p].pc = "new_total"
    /\ \/ /\ members' =
               [members EXCEPT ![req[p].memberID].total_donated =
                                   @ + req[p].webhook.amount]
          /\ req' = [req EXCEPT ![p] = Acknowledge(@, "")]
          /\ UNCHANGED faults
       \/ /\ MayFail
          /\ faults' = faults + 1
          /\ req' = [req EXCEPT ![p] = Acknowledge(Failing(@, "new_total"), "")]
          /\ UNCHANGED members
    /\ UNCHANGED <<variant, status_history, webhook_logs, paymentVars, nreq, normVars>>

\* mutant: a cancellation deletes the rows it matches
MembersAfterStatusUpdateDeleting(email, donationID, status, cancels) ==
    IF cancels
    THEN SelectSeq(members,
                   LAMBDA row : row.id \notin MembersWithEmailOrSubscription(email, donationID))
    ELSE [i \in 1..Len(members) |->
            IF i \in MembersWithEmailOrSubscription(email, donationID)
            THEN [members[i] EXCEPT !.status = status]
            ELSE members[i]]

\* the member table after UPDATE members SET status = $status [,
\* cancelled_date = CURRENT_DATE] WHERE email = $1 OR subscription_id = $2
MembersAfterStatusUpdate(email, donationID, status, cancels) ==
    [i \in 1..Len(members) |->
        IF i \in MembersWithEmailOrSubscription(email, donationID)
        THEN [members[i] EXCEPT
                !.status = status,
                !.cancelled_date = IF cancels THEN TRUE ELSE @]
        ELSE members[i]]

\* handleCancellation: one UPDATE; no matching row is only logged
handleCancellation(p) ==
    /\ variant = "donation"
    /\ req[p].pc = "cancel"
    /\ \/ /\ MayFail
          /\ faults' = faults + 1
          /\ req' = [req EXCEPT ![p] =
                       Acknowledge(Failing(@, "cancel"), "failed to cancel subscription")]
          /\ UNCHANGED members
       \/ /\ members' = MembersAfterStatusUpdate(req[p].email,
                            req[p].webhook.donation_id, "cancelled", TRUE)
          /\ req' = [req EXCEPT ![p] = Acknowledge(@, "")]
          /\ UNCHANGED faults
    /\ UNCHANGED <<variant, status_history, webhook_logs, paymentVars, nreq, normVars>>

\* handlePayment: SELECT id FROM members WHERE email = $1 OR subscription_id
\* = $2; Scan takes the first row the store returns; every error, not only
\* sql.ErrNoRows, is logged as 'member not found' and nil is returned
\* a lookup that returns an error when no member is found
handlePaymentSelectStrict(p) ==
    /\ variant = "donation"
    /\ req[p].pc = "pay_select"
    /\ LET found == MembersWithEmailOrSubscription(req[p].email,
                                                   req[p].webhook.donation_id)
       IN \/ /\ found = {}
             /\ req' = [req EXCEPT ![p] = Acknowledge(@, "member not found")]
          \/ /\ \E id \in found :
                   req' = [req EXCEPT ![p].pc = "pay_insert", ![p].memberID = id]
    /\ UNCHANGED <<variant, storeVars, nreq, faults, normVars>>

handlePaymentSelect(p) ==
    /\ variant = "donation"
    /\ req[p].pc = "pay_select"
    /\ LET found == MembersWithEmailOrSubscription(req[p].email,
                                                   req[p].webhook.donation_id)
       IN \/ /\ MayFail
             /\ faults' = faults + 1
             /\ req' = [req EXCEPT ![p] = Acknowledge(Failing(@, "pay_select"), "")]
          \/ /\ found = {}
             /\ req' = [req EXCEPT ![p] = Acknowledge(@, "")]
             /\ UNCHANGED faults
          \/ /\ \E id \in found :
                   req' = [req EXCEPT ![p].pc = "pay_insert", ![p].memberID = id]
             /\ UNCHANGED faults
    /\ UNCHANGED <<variant, storeVars, nreq, normVars>>

\* handlePayment: INSERT INTO payments (...)
handlePaymentInsert(p) ==
    /\ variant = "donation"
    /\ req[p].pc = "pay_insert"
    /\ \/ /\ MayFail
          /\ faults' = faults + 1
          /\ req' = [req EXCEPT ![p] =
                       Acknowledge(Failing(@, "pay_insert"), "failed to record payment")]
          /\ UNCHANGED payments
       \/ /\ payments' =
               Append(payments,
                      PaymentRow(req[p].memberID, req[p].webhook.amount,
                                 req[p].webhook.donation_id, "Recurring payment"))
          /\ req' = [req EXCEPT ![p].pc = "pay_update"]
          /\ UNCHANGED faults
    /\ UNCHANGED <<variant, members, status_history, webhook_logs,
                   subscription_history, nreq, normVars>>

\* handlePayment: UPDATE members SET last_payment_date = CURRENT_DATE,
\* total_donated = total_donated + $1, status = 'active' WHERE id = $2;
\* return err
\* an UPDATE that sets the total to the amount of the event
handlePaymentUpdateOverwriting(p) ==
    /\ variant = "donation"
    /\ req[p].pc = "pay_update"
    /\ members' =
         [members EXCEPT ![req[p].memberID] =
             [@ EXCEPT !.total_donated = req[p].webhook.amount,
                       !.status = "active"]]
    /\ req' = [req EXCEPT ![p] = Acknowledge(@, "")]
    /\ UNCHANGED <<variant, status_history, webhook_logs, paymentVars, nreq,
                   faults, normVars>>

handlePaymentUpdate(p) ==
    /\ variant = "donation"
    /\ req[p].pc = "pay_update"
    /\ \/ /\ MayFail
          /\ faults' = faults + 1
          /\ req' = [req EXCEPT ![p] = Acknowledge(Failing(@, "pay_update"), DriverError)]
          /\ UNCHANGED members
       \/ /\ members' =
               [members EXCEPT ![req[p].memberID] =
                   [@ EXCEPT !.total_donated = @ + req[p].webhook.amount,
                             !.status = "active"]]
          /\ req' = [req EXCEPT ![p] = Acknowledge(@, "")]
          /\ UNCHANGED faults
    /\ UNCHANGED <<variant, status_history, webhook_logs, paymentVars, nreq, normVars>>

\* handleFailedPayment: UPDATE members SET status = 'payment_failed' WHERE
\* email = $1 OR subscription_id = $2; return err
handleFailedPayment(p) ==
    /\ variant = "donation"
    /\ req[p].pc = "fail_update"
    /\ \/ /\ MayFail
          /\ faults' = faults + 1
          /\ req' = [req EXCEPT ![p] = Acknowledge(Failing(@, "fail_update"), DriverError)]
          /\ UNCHANGED members
       \/ /\ members' = MembersAfterStatusUpdate(req[p].email,
                            req[p].webhook.donation_id, "payment_failed", FALSE)
          /\ req' = [req EXCEPT ![p] = Acknowledge(@, "")]
          /\ UNCHANGED faults
    /\ UNCHANGED <<variant, status_history, webhook_logs, paymentVars, nreq, normVars>>

\* payloads of the donation build: two subscriptions for one member, other
\* members with and without a donation id, and every other event type
\* addressed by email, by donation id or by neither
DonationWebhooks ==
    {DonationWebhook("A@b ", "Jane", 5, "D1", "new_subscription"),
     DonationWebhook(" a@B", "", 7, "", "new_recurring"),
     DonationWebhook("c@d", "Cy", 5, "", "new_subscription"),
     DonationWebhook("e@f", "Eve", 5, "D1", "new_subscription"),
     DonationWebhook("A@b ", "", 5, "", "cancelled"),
     DonationWebhook("x@y", "", 5, "D1", "subscription_cancelled"),
     DonationWebhook("A@b ", "", 7, "", "payment"),
     DonationWebhook("x@y", "", 5, "D1", "payment_received"),
     DonationWebhook("A@b ", "", 5, "", "failed"),
     DonationWebhook("x@y", "", 5, "D1", "payment_failed"),
     DonationWebhook("A@b ", "", 5, "D1", "refund")}

DonationRequests ==
    {HttpRequest("POST", BearerOk, TRUE, w) : w \in DonationWebhooks}
    \cup {HttpRequest("POST", c, TRUE, DonationWebhook("c@d", "Cy", 5, "", "payment")) :
            c \in {NoCredentials, Credentials("Basic", "zapier:" \o WebhookSecret, "")}}
    \cup {HttpRequest("GET", BearerOk, TRUE, DonationWebhook("c@d", "Cy", 5, "", "payment")),
          HttpRequest("POST", BearerOk, FALSE, DonationWebhook("c@d", "Cy", 5, "", "payment"))}

\* the statements of a request of the donation build
ServeDonation(p) ==
    \/ donationProcessWebhook(p)
    \/ handleNewSubscriptionSelect(p)
    \/ handleNewSubscriptionInsert(p)
    \/ handleNewSubscriptionUpdate(p)
    \/ handleNewSubscriptionPayment(p)
    \/ handleNewSubscriptionTotal(p)
    \/ handleCancellation(p)
    \/ handlePaymentSelect(p)
    \/ handlePaymentInsert(p)
    \/ handlePaymentUpdate(p)
    \/ handleFailedPayment(p)

(***************************************************************************)
(* PayPal build: webhookHandler, processWebhookEvent,                      *)
(* handleSubscriptionActivated, handleSubscriptionCancelled,               *)
(* handleSubscriptionSuspended, handleSubscriptionReactivated,             *)
(* handlePaymentCompleted                                                  *)
(***************************************************************************)
\* WebhookEvent: event_type, resource.id, resource.subscriber (email_address,
\* payer_id), resource.billing_agreement_id, resource.payer (payer_id,
\* email_address) and resource.payer.payer_info (payer_id, email)
WebhookEvent(event_type, id, subscriber, billing_agreement_id, payer, payer_info) ==
    [event_type |-> event_type, id |-> id, subscriber |-> subscriber,
     billing_agreement_id |-> billing_agreement_id, payer |-> payer,
     payer_info |-> payer_info]

\* an email address with a payer id
Party(email, payer_id) == [email |-> email, payer_id |-> payer_id]
NoParty == Party("", "")

\* members(id SERIAL, paypal_email UNIQUE NOT NULL, paypal_payer_id UNIQUE,
\*         current_subscription_id UNIQUE, subscription_status, ...)
SubscriberRow(id, paypal_email, paypal_payer_id, current_subscription_id, subscription_status) ==
    [id |-> id, paypal_email |-> paypal_email, paypal_payer_id |-> paypal_payer_id,
     current_subscription_id |-> current_subscription_id,
     subscription_status |-> subscription_status]

\* subscription_history(id SERIAL, member_id, subscription_id UNIQUE, status,
\*                      started_at, ended_at); ended is TRUE when ended_at
\* is set and FALSE when it is NULL
SubscriptionRow(member_id, subscription_id, status, ended) ==
    [member_id |-> member_id, subscription_id |-> subscription_id,
     status |-> status, ended |-> ended]

\* payments(id SERIAL, member_id, subscription_id, transaction_id UNIQUE NOT
\*          NULL, amount, currency, payment_date, status)
SaleRow(member_id, subscription_id, transaction_id) ==
    [member_id |-> member_id, subscription_id |-> subscription_id,
     transaction_id |-> transaction_id]

\* verifyWebhookSignature: what PayPal answers for the transmission headers
\* of the request (cred.rest is the verification_status)
verifyWebhookSignature(cred) == cred.rest = "SUCCESS"

\* ids of the rows of SELECT id FROM members WHERE paypal_email = $1 OR
\* (paypal_payer_id = $2 AND $2 != '' AND $2 IS NOT NULL)
MembersWithEmailOrPayer(email, payerID) ==
    {i \in 1..Len(members) :
        \/ members[i].paypal_email = email
        \/ (members[i].paypal_payer_id = payerID /\ payerID # "")}

\* ids of the rows WHERE current_subscription_id = $1
MembersWithSubscription(subscriptionID) ==
    {i \in 1..Len(members) : members[i].current_subscription_id = subscriptionID}

\* ids of the rows WHERE current_subscription_id = $1 OR paypal_payer_id = $2
MembersWithSubscriptionOrPayer(subscriptionID, payerID) ==
    {i \in 1..Len(members) :
        \/ members[i].current_subscription_id = subscriptionID
        \/ members[i].paypal_payer_id = payerID}

\* a UNIQUE constraint of members rejects the row for member memberID (0: a
\* new row)
SubscriberUniqueViolation(email, payerID, subscriptionID, memberID) ==
    \E i \in 1..Len(members) :
        /\ members[i].id # memberID
        /\ \/ members[i].paypal_email = email
           \/ members[i].paypal_payer_id = payerID
           \/ members[i].current_subscription_id = subscriptionID

\* the start of handlePaymentCompleted: the payer from resource.payer or
\* else from resource.payer.payer_info, the subscription from
\* billing_agreement_id
handlePaymentCompletedEntry(rq) ==
    LET event == rq.webhook
        payer == IF event.payer.payer_id # "" THEN event.payer
                 ELSE IF event.payer_info.payer_id # "" THEN event.payer_info
                 ELSE NoParty
        entered == [rq EXCEPT !.payerID = payer.payer_id,
                              !.email = payer.email,
                              !.subscriptionID = event.billing_agreement_id]
    IN  IF entered.subscriptionID = "" /\ entered.email # ""
        THEN [entered EXCEPT !.pc = "sale_lookup"]
        ELSE IF entered.payerID # "" /\ entered.subscriptionID # ""
        THEN [entered EXCEPT !.pc = "sale_payer"]
        ELSE [entered EXCEPT !.pc = "sale_select"]

\* processWebhookEvent: switch event.EventType, up to the handler's first
\* store statement
processWebhookEvent(rq) ==
    LET event == rq.webhook IN
    IF event.event_type = "BILLING.SUBSCRIPTION.ACTIVATED"
    THEN [rq EXCEPT !.pc = "act_select",
                    !.email = ToLower(event.subscriber.email),
                    !.subscriptionID = event.id,
                    !.payerID = event.subscriber.payer_id]
    ELSE IF event.event_type = "BILLING.SUBSCRIPTION.CANCELLED"
    THEN [rq EXCEPT !.pc = "sub_cancel", !.subscriptionID = event.id]
    ELSE IF event.event_type = "BILLING.SUBSCRIPTION.SUSPENDED"
    THEN [rq EXCEPT !.pc = "sub_suspend", !.subscriptionID = event.id]
    ELSE IF event.event_type = "BILLING.SUBSCRIPTION.RE-ACTIVATED"
    THEN [rq EXCEPT !.pc = "sub_reactivate", !.subscriptionID = event.id]
    ELSE IF event.event_type = "PAYMENT.SALE.COMPLETED"
    THEN handlePaymentCompletedEntry(rq)
    ELSE Acknowledge(rq, "")

\* a handler that answers 401 to an event whose signature is not verified
paypalHandlerStartVerifying(r) ==
    IF r.method # "POST" THEN Reject(Arrived(r), 405)
    ELSE IF ~r.jsonOk THEN Reject(Arrived(r), 400)
    ELSE IF ~verifyWebhookSignature(r.cred) THEN Reject(Arrived(r), 401)
    ELSE processWebhookEvent([Arrived(r) EXCEPT !.webhook = r.webhook])

\* webhookHandler up to processWebhookEvent: method, body, JSON; an invalid
\* signature is only logged
paypalHandlerStart(r) ==
    IF r.method # "POST" THEN Reject(Arrived(r), 405)
    ELSE IF ~r.jsonOk THEN Reject(Arrived(r), 400)
    ELSE processWebhookEvent([Arrived(r) EXCEPT !.webhook = r.webhook])

\* goroutine p starts serving a request of the PayPal build
paypalWebhookHandler(p, arrivals) ==
    /\ variant = "paypal"
    /\ Free(p)
    /\ nreq < MaxReq
    /\ nreq' = nreq + 1
    /\ \E rq \in arrivals : req' = [req EXCEPT ![p] = rq]
    /\ UNCHANGED <<variant, storeVars, faults, normVars>>

\* handleSubscriptionActivated: SELECT id FROM members WHERE paypal_email =
\* $1 OR (paypal_payer_id = $2 AND ...) LIMIT 1; exists = err == nil, so a
\* failed query goes on as 'no such member'
handleSubscriptionActivatedSelect(p) ==
    /\ variant = "paypal"
    /\ req[p].pc = "act_select"
    /\ LET found == MembersWithEmailOrPayer(req[p].email, req[p].payerID) IN
       \/ /\ MayFail
          /\ faults' = faults + 1
          /\ req' = [req EXCEPT ![p] = [Failing(@, "act_select") EXCEPT !.pc = "act_insert"]]
       \/ /\ found = {}
          /\ req' = [req EXCEPT ![p].pc = "act_insert"]
          /\ UNCHANGED faults
       \/ /\ \E id \in found :
                req' = [req EXCEPT ![p].pc = "act_update", ![p].memberID = id]
          /\ UNCHANGED faults
    /\ UNCHANGED <<variant, storeVars, nreq, normVars>>

\* handleSubscriptionActivated: UPDATE members SET current_subscription_id =
\* $1, subscription_status = 'active', paypal_payer_id =
\* COALESCE(NULLIF($3, ''), paypal_payer_id), ... WHERE id = $6
handleSubscriptionActivatedUpdate(p) ==
    /\ variant = "paypal"
    /\ req[p].pc = "act_update"
    /\ LET id == req[p].memberID
           payer == CoalesceNullIf(req[p].payerID, members[id].paypal_payer_id)
           rejected == SubscriberUniqueViolation(members[id].paypal_email, payer,
                                                 req[p].subscriptionID, id)
       IN \/ /\ MayFail
             /\ faults' = faults + 1
             /\ req' = [req EXCEPT ![p] =
                          Acknowledge(Failing(@, "act_update"), "failed to update member")]
             /\ UNCHANGED members
          \/ /\ rejected
             /\ req' = [req EXCEPT ![p] = Acknowledge(@, "failed to update member")]
             /\ UNCHANGED <<members, faults>>
          \/ /\ ~rejected
             /\ members' =
                  [members EXCEPT ![id] =
                      [@ EXCEPT !.current_subscription_id = req[p].subscriptionID,
                                !.subscription_status = "active",
                                !.paypal_payer_id = payer]]
             /\ req' = [req EXCEPT ![p].pc = "act_history"]
             /\ UNCHANGED faults
    /\ UNCHANGED <<variant, status_history, webhook_logs, paymentVars, nreq, normVars>>

\* handleSubscriptionActivated: INSERT INTO members (...) VALUES ($1, $2, $3,
\* 'active', ...) RETURNING id
handleSubscriptionActivatedInsert(p) ==
    /\ variant = "paypal"
    /\ req[p].pc = "act_insert"
    /\ LET rejected == SubscriberUniqueViolation(req[p].email, req[p].payerID,
                                                 req[p].subscriptionID, 0)
       IN \/ /\ MayFail
             /\ faults' = faults + 1
             /\ req' = [req EXCEPT ![p] =
                          Acknowledge(Failing(@, "act_insert"), "failed to create member")]
             /\ UNCHANGED members
          \/ /\ rejected
             /\ req' = [req EXCEPT ![p] = Acknowledge(@, "failed to create member")]
             /\ UNCHANGED <<members, faults>>
          \/ /\ ~rejected
             /\ members' =
                  Append(members,
                         SubscriberRow(Len(members) + 1, req[p].email, req[p].payerID,
                                       req[p].subscriptionID, "active"))
             /\ req' = [req EXCEPT ![p].pc = "act_history",
                                   ![p].memberID = Len(members) + 1]
             /\ UNCHANGED faults
    /\ UNCHANGED <<variant, status_history, webhook_logs, paymentVars, nreq, normVars>>

\* a history update that sets ended_at and leaves the status of the row
HistoryWithStatusEndedOnly(subscriptionID, status) ==
    [i \in 1..Len(subscription_history) |->
        IF subscription_history[i].subscription_id = subscriptionID
        THEN [subscription_history[i] EXCEPT
                !.ended = IF status = "cancelled" THEN TRUE
                          ELSE IF status = "active" THEN FALSE
                          ELSE @]
        ELSE subscription_history[i]]

\* the rows of subscription_history after the status of subscription
\* subscriptionID is set: 'cancelled' comes with ended_at =
\* CURRENT_TIMESTAMP, 'active' with ended_at = NULL, 'suspended' leaves
\* ended_at alone
HistoryWithStatus(subscriptionID, status) ==
    [i \in 1..Len(subscription_history) |->
        IF subscription_history[i].subscription_id = subscriptionID
        THEN [subscription_history[i] EXCEPT
                !.status = status,
                !.ended = IF status = "cancelled" THEN TRUE
                          ELSE IF status = "active" THEN FALSE
                          ELSE @]
        ELSE subscription_history[i]]

\* handleSubscriptionActivated: INSERT INTO subscription_history (...) VALUES
\* ($1, $2, 'active') ON CONFLICT (subscription_id) DO UPDATE SET status =
\* 'active', ended_at = NULL; a failure is only logged; return nil
handleSubscriptionActivatedHistory(p) ==
    /\ variant = "paypal"
    /\ req[p].pc = "act_history"
    /\ \/ /\ subscription_history' =
               IF \E i \in 1..Len(subscription_history) :
                     subscription_history[i].subscription_id = req[p].subscriptionID
               THEN HistoryWithStatus(req[p].subscriptionID, "active")
               ELSE Append(subscription_history,
                           SubscriptionRow(req[p].memberID, req[p].subscriptionID,
                                           "active", FALSE))
          /\ req' = [req EXCEPT ![p] = Acknowledge(@, "")]
          /\ UNCHANGED faults
       \/ /\ MayFail
          /\ faults' = faults + 1
          /\ req' = [req EXCEPT ![p] = Acknowledge(Failing(@, "act_history"), "")]
          /\ UNCHANGED subscription_history
    /\ UNCHANGED <<variant, members, status_history, webhook_logs, payments,
                   nreq, normVars>>

\* UPDATE members SET subscription_status = $status WHERE
\* current_subscription_id = $1, as the three status handlers run it: a
\* failure is returned, no matching row is only logged, otherwise the
\* history statement follows
SubscriptionStatusUpdate(p, pc, status, failure) ==
    /\ variant = "paypal"
    /\ req[p].pc = pc
    /\ \/ /\ MayFail
          /\ faults' = faults + 1
          /\ req' = [req EXCEPT ![p] = Acknowledge(Failing(@, pc), failure)]
          /\ UNCHANGED members
       \/ /\ MembersWithSubscription(req[p].subscriptionID) = {}
          /\ req' = [req EXCEPT ![p] = Acknowledge(@, "")]
          /\ UNCHANGED <<members, faults>>
       \/ /\ MembersWithSubscription(req[p].subscriptionID) # {}
          /\ members' =
               [i \in 1..Len(members) |->
                   IF i \in MembersWithSubscription(req[p].subscriptionID)
                   THEN [members[i] EXCEPT !.subscription_status = status]
                   ELSE members[i]]
          /\ req' = [req EXCEPT ![p].pc = "sub_history", ![p].status = status]
          /\ UNCHANGED faults
    /\ UNCHANGED <<variant, status_history, webhook_logs, paymentVars, nreq, normVars>>

handleSubscriptionCancelled(p) ==
    SubscriptionStatusUpdate(p, "sub_cancel", "cancelled",
                             "failed to update cancelled subscription")

handleSubscriptionSuspended(p) ==
    SubscriptionStatusUpdate(p, "sub_suspend", "suspended",
                             "failed to update suspended subscription")

handleSubscriptionReactivated(p) ==
    SubscriptionStatusUpdate(p, "sub_reactivate", "active",
                             "failed to reactivate subscription")

\* UPDATE subscription_history SET status = $status [, ended_at = ...] WHERE
\* subscription_id = $1 of the three status handlers; its error is assigned
\* and never read; return nil
handleSubscriptionHistory(p) ==
    /\ variant = "paypal"
    /\ req[p].pc = "sub_history"
    /\ \/ /\ subscription_history' =
               HistoryWithStatus(req[p].subscriptionID, req[p].status)
          /\ req' = [req EXCEPT ![p] = Acknowledge(@, "")]
          /\ UNCHANGED faults
       \/ /\ MayFail
          /\ faults' = faults + 1
          /\ req' = [req EXCEPT ![p] = Acknowledge(Failing(@, "sub_history"), "")]
          /\ UNCHANGED subscription_history
    /\ UNCHANGED <<variant, members, status_history, webhook_logs, payments,
                   nreq, normVars>>

\* the statement of handlePaymentCompleted that follows the lookup of the
\* subscription
AfterSaleLookup(rq) ==
    IF rq.payerID # "" /\ rq.subscriptionID # ""
    THEN [rq EXCEPT !.pc = "sale_payer"]
    ELSE [rq EXCEPT !.pc = "sale_select"]

\* handlePaymentCompleted: SELECT current_subscription_id FROM members WHERE
\* paypal_email = lower(email); an error or no row is only logged
handlePaymentCompletedLookup(p) ==
    /\ variant = "paypal"
    /\ req[p].pc = "sale_lookup"
    /\ LET found == {i \in 1..Len(members) :
                        members[i].paypal_email = ToLower(req[p].email)}
       IN \/ /\ MayFail
             /\ faults' = faults + 1
             /\ req' = [req EXCEPT ![p] = AfterSaleLookup(Failing(@, "sale_lookup"))]
          \/ /\ found = {}
             /\ req' = [req EXCEPT ![p] = AfterSaleLookup(@)]
             /\ UNCHANGED faults
          \/ /\ \E id \in found :
                   req' = [req EXCEPT ![p] =
                             AfterSaleLookup([@ EXCEPT !.subscriptionID =
                                                members[id].current_subscription_id])]
             /\ UNCHANGED faults
    /\ UNCHANGED <<variant, storeVars, nreq, normVars>>

\* handlePaymentCompleted: UPDATE members SET paypal_payer_id =
\* COALESCE(paypal_payer_id, $1) WHERE current_subscription_id = $2 AND
\* (paypal_payer_id IS NULL OR paypal_payer_id = ''); a failure is only
\* logged.  The column is never NULL (every INSERT gives it a string), so
\* COALESCE keeps the stored value, the empty string included.
handlePaymentCompletedPayer(p) ==
    /\ variant = "paypal"
    /\ req[p].pc = "sale_payer"
    /\ \/ /\ req' = [req EXCEPT ![p].pc = "sale_select"]
          /\ UNCHANGED faults
       \/ /\ MayFail
          /\ faults' = faults + 1
          /\ req' = [req EXCEPT ![p] = [Failing(@, "sale_payer") EXCEPT !.pc = "sale_select"]]
    /\ UNCHANGED <<variant, storeVars, nreq, normVars>>

\* handlePaymentCompleted: SELECT id FROM members WHERE
\* current_subscription_id = $1 OR paypal_payer_id = $2 LIMIT 1; every
\* error is logged as 'could not find member' and nil is returned
handlePaymentCompletedSelect(p) ==
    /\ variant = "paypal"
    /\ req[p].pc = "sale_select"
    /\ LET found == MembersWithSubscriptionOrPayer(req[p].subscriptionID,
                                                   req[p].payerID)
       IN \/ /\ MayFail
             /\ faults' = faults + 1
             /\ req' = [req EXCEPT ![p] = Acknowledge(Failing(@, "sale_select"), "")]
          \/ /\ found = {}
             /\ req' = [req EXCEPT ![p] = Acknowledge(@, "")]
             /\ UNCHANGED faults
          \/ /\ \E id \in found :
                   req' = [req EXCEPT ![p].pc = "sale_insert", ![p].memberID = id]
             /\ UNCHANGED faults
    /\ UNCHANGED <<variant, storeVars, nreq, normVars>>

\* handlePaymentCompleted: INSERT INTO payments (...) VALUES (...)
\* ON CONFLICT (transaction_id) DO NOTHING
handlePaymentCompletedInsert(p) ==
    /\ variant = "paypal"
    /\ req[p].pc = "sale_insert"
    /\ \/ /\ MayFail
          /\ faults' = faults + 1
          /\ req' = [req EXCEPT ![p] =
                       Acknowledge(Failing(@, "sale_insert"), "failed to record payment")]
          /\ UNCHANGED payments
       \/ /\ payments' =
               IF \E i \in 1..Len(payments) :
                     payments[i].transaction_id = req[p].webhook.id
               THEN payments
               ELSE Append(payments,
                           SaleRow(req[p].memberID, req[p].subscriptionID,
                                   req[p].webhook.id))
          /\ req' = [req EXCEPT ![p] = Acknowledge(@, "")]
          /\ UNCHANGED faults
    /\ UNCHANGED <<variant, members, status_history, webhook_logs,
                   subscription_history, nreq, normVars>>

\* a subscription event and a sale event
SubscriptionEvent(event_type, id, email, payer_id) ==
    WebhookEvent(event_type, id, Party(email, payer_id), "", NoParty, NoParty)
SaleEvent(id, billing_agreement_id, payer, payer_info) ==
    WebhookEvent("PAYMENT.SALE.COMPLETED", id, NoParty, billing_agreement_id,
                 payer, payer_info)

\* events of the PayPal build: activations of one member under two
\* subscriptions and of another member without payer id, the three status
\* events, sales that name the subscription, the payer or only the email,
\* and an event type no handler takes
PayPalEvents ==
    {SubscriptionEvent("BILLING.SUBSCRIPTION.ACTIVATED", "S1", "A@b", "P1"),
     SubscriptionEvent("BILLING.SUBSCRIPTION.ACTIVATED", "S2", "a@B ", "P1"),
     SubscriptionEvent("BILLING.SUBSCRIPTION.ACTIVATED", "S3", "c@d", ""),
     SubscriptionEvent("BILLING.SUBSCRIPTION.CANCELLED", "S1", "", ""),
     SubscriptionEvent("BILLING.SUBSCRIPTION.SUSPENDED", "S1", "", ""),
     SubscriptionEvent("BILLING.SUBSCRIPTION.RE-ACTIVATED", "S1", "", ""),
     SaleEvent("T1", "S1", Party("a@b", "P1"), NoParty),
     SaleEvent("T1", "", NoParty, Party("A@b", "P1")),
     SaleEvent("T2", "", Party("c@d", ""), NoParty),
     SubscriptionEvent("BILLING.PLAN.CREATED", "PL1", "", "")}

SignatureOk == Credentials("", "SUCCESS", "")
SignatureBad == Credentials("", "FAILURE", "")

PayPalRequests ==
    {HttpRequest("POST", SignatureOk, TRUE, e) : e \in PayPalEvents}
    \cup {HttpRequest("POST", SignatureBad, TRUE,
                      SubscriptionEvent("BILLING.SUBSCRIPTION.CANCELLED", "S1", "", "")),
          HttpRequest("GET", SignatureOk, TRUE,
                      SubscriptionEvent("BILLING.SUBSCRIPTION.CANCELLED", "S1", "", "")),
          HttpRequest("POST", SignatureOk, FALSE,
                      SubscriptionEvent("BILLING.SUBSCRIPTION.CANCELLED", "S1", "", ""))}

\* the statements of a request of the PayPal build
ServePayPal(p) ==
    \/ handleSubscriptionActivatedSelect(p)
    \/ handleSubscriptionActivatedUpdate(p)
    \/ handleSubscriptionActivatedInsert(p)
    \/ handleSubscriptionActivatedHistory(p)
    \/ handleSubscriptionCancelled(p)
    \/ handleSubscriptionSuspended(p)
    \/ handleSubscriptionReactivated(p)
    \/ handleSubscriptionHistory(p)
    \/ handlePaymentCompletedLookup(p)
    \/ handlePaymentCompletedPayer(p)
    \/ handlePaymentCompletedSelect(p)
    \/ handlePaymentCompletedInsert(p)

(***************************************************************************)
(* Specifications                                                          *)
(***************************************************************************)
\* no paired run yet: the other build's tables are empty
TwinIdle ==
    [phase |-> "idle", webhook |-> NoWebhook, members |-> <<>>,
     status_history |-> <<>>, webhook_logs |-> <<>>, nreq |-> 0]

\* no batch run yet
BatchIdle ==
    [pc |-> "idle", dryRun |-> FALSE, activeSet |-> {},
     toAdd |-> {}, toActivate |-> {}, toDeactivate |-> {},
     addLeft |-> {}, activateLeft |-> {}, deactivateLeft |-> {},
     failed |-> {}, err |-> ""]

EmptyStore ==
    /\ members = <<>>
    /\ status_history = <<>>
    /\ webhook_logs = <<>>
    /\ payments = <<>>
    /\ subscription_history = <<>>
    /\ req = [p \in Handlers |-> IdleReq]
    /\ nreq = 0
    /\ faults = 0
    /\ batch = BatchIdle
    /\ twin = TwinIdle

\* the server after start-up, with the tables of the migration and no rows
Init ==
    /\ variant \in Builds
    /\ EmptyStore
    /\ nin = NoWebhook
    /\ nout = NotRun

\* the statements of a request of the modular and monolithic builds
ServeZapier(p) ==
    \/ LogWebhook(p)
    \/ processWebhookLog(p)
    \/ ProcessMemberSelect(p)
    \/ ProcessMemberInsert(p)
    \/ ProcessMemberUpdate(p)
    \/ ProcessMemberHistory(p)

\* the requests as each build's handler leaves them before its first
\* store statement
ModularArrivals == {webhookHandlerStart(r) : r \in Requests}
MonolithicArrivals == {monolithicHandlerStart(r) : r \in Requests}
DonationArrivals == {donationHandlerStart(r) : r \in DonationRequests}
PayPalArrivals == {paypalHandlerStart(r) : r \in PayPalRequests}

\* goroutine p receives one of the requests
Receive(p) ==
    \/ webhookHandler(p, ModularArrivals)
    \/ monolithicWebhookHandler(p, MonolithicArrivals)
    \/ donationWebhookHandler(p, DonationArrivals)
    \/ paypalWebhookHandler(p, PayPalArrivals)

\* the statements of the request goroutine p is serving
Serve(p) ==
    \/ ServeZapier(p)
    \/ ServeDonation(p)
    \/ ServePayPal(p)

\* requests arrive one after the other: each is served to its response
\* before the next is received
Next ==
    \/ Receive(SoleHandler)
    \/ Serve(SoleHandler)

Spec == Init /\ [][Next]_vars

\* one raw payload, normalized once
InitNorm ==
    /\ variant \in ZapierBuilds
    /\ EmptyStore
    /\ nin \in NormWebhooks
    /\ nout = NotRun

NextNorm == modularNormalize \/ monolithicNormalize

SpecNorm == InitNorm /\ [][NextNorm]_vars

\* payloads of requests that race for one member
RaceWebhooks ==
    {MemberWebhook("A@b ", "Jane", "Succeeded", "no"),
     MemberWebhook(" a@B", "", "Failed", "no"),
     MemberWebhook("A@b ", "Jane", "Pending", "True")}

RaceRequests == {HttpRequest("POST", BearerOk, TRUE, w) : w \in RaceWebhooks}

ModularRaceArrivals == {webhookHandlerStart(r) : r \in RaceRequests}
MonolithicRaceArrivals == {monolithicHandlerStart(r) : r \in RaceRequests}

\* requests overlap: every goroutine runs its statements on its own, the
\* store runs one statement at a time
NextConc ==
    \E p \in Handlers :
        \/ webhookHandler(p, ModularRaceArrivals)
        \/ monolithicWebhookHandler(p, MonolithicRaceArrivals)
        \/ ServeZapier(p)

\* the modular or the monolithic server after start-up
InitConc ==
    /\ variant \in ZapierBuilds
    /\ EmptyStore
    /\ nin = NoWebhook
    /\ nout = NotRun

SpecConc == InitConc /\ [][NextConc]_vars

\* a subscription and payments that name its member by email or by
\* subscription id, as donationHandlerStart leaves them
PaymentRaceArrivals ==
    {donationHandlerStart(HttpRequest("POST", BearerOk, TRUE, w)) :
        w \in {DonationWebhook("A@b ", "Jane", 5, "D1", "new_subscription"),
               DonationWebhook("A@b ", "", 7, "", "payment"),
               DonationWebhook("x@y", "", 5, "D1", "payment_received")}}

InitPay ==
    /\ variant = "donation"
    /\ EmptyStore
    /\ nin = NoWebhook
    /\ nout = NotRun

\* two goroutines serve subscriptions and payments of the donation build,
\* interleaved statement by statement
NextPay ==
    \E p \in Handlers :
        \/ donationWebhookHandler(p, PaymentRaceArrivals)
        \/ donationProcessWebhook(p)
        \/ handleNewSubscriptionSelect(p)
        \/ handleNewSubscriptionInsert(p)
        \/ handleNewSubscriptionUpdate(p)
        \/ handleNewSubscriptionPayment(p)
        \/ handleNewSubscriptionTotal(p)
        \/ handlePaymentSelect(p)
        \/ handlePaymentInsert(p)
        \/ handlePaymentUpdate(p)

SpecPay == InitPay /\ [][NextPay]_vars

\* the calls of UpdateMemberStatus as UpdateMemberStatusStart leaves them
StatusUpdateArrivals == {UpdateMemberStatusStart(c) : c \in StatusUpdateCalls}

\* webhooks and calls of UpdateMemberStatus, one after the other
NextUpdate ==
    \/ Next
    \/ UpdateMemberStatus(SoleHandler, StatusUpdateArrivals)
    \/ UpdateMemberStatusSelect(SoleHandler)
    \/ UpdateMemberStatusHistory(SoleHandler)

SpecUpdate == Init /\ [][NextUpdate]_vars

(***************************************************************************)
(* Paired run: the modular and the monolithic build are fed the same       *)
(* authorized webhooks, each over its own tables and its own clock         *)
(***************************************************************************)
\* each webhook as the handler of either build leaves it
TwinArrivals ==
    [w \in Webhooks |->
        [modular |-> webhookHandlerStart(HttpRequest("POST", BearerOk, TRUE, w)),
         monolithic |-> monolithicHandlerStart(HttpRequest("POST", BearerOk, TRUE, w))]]

\* the next webhook of the sequence is picked; the modular build takes it
\* first
TwinChoose ==
    /\ twin.phase = "idle"
    /\ variant = "modular"
    /\ Free(SoleHandler)
    /\ nreq < MaxReq
    /\ \E w \in Webhooks : twin' = [twin EXCEPT !.phase = "first", !.webhook = w]
    /\ UNCHANGED <<variant, storeVars, req, nreq, faults, nin, nout, batch>>

\* the build that has served the webhook steps aside: its tables and clock
\* are put away and those of the other build are taken up
TwinSwap ==
    /\ twin.phase \in {"first", "second"}
    /\ Free(SoleHandler)
    /\ nreq = IF twin.phase = "first" THEN twin.nreq + 1 ELSE twin.nreq
    /\ variant' = IF variant = "modular" THEN "monolithic" ELSE "modular"
    /\ members' = twin.members
    /\ status_history' = twin.status_history
    /\ webhook_logs' = twin.webhook_logs
    /\ nreq' = twin.nreq
    /\ twin' = [phase |-> IF twin.phase = "first" THEN "second" ELSE "idle",
                webhook |-> IF twin.phase = "first" THEN twin.webhook ELSE NoWebhook,
                members |-> members,
                status_history |-> status_history,
                webhook_logs |-> webhook_logs,
                nreq |-> nreq]
    /\ UNCHANGED <<paymentVars, req, faults, nin, nout, batch>>

\* both builds start from empty tables; the paired run is followed without
\* failing statements (the failures of the run are used up from the start)
InitTwin ==
    /\ variant = "modular"
    /\ members = <<>>
    /\ status_history = <<>>
    /\ webhook_logs = <<>>
    /\ payments = <<>>
    /\ subscription_history = <<>>
    /\ req = [p \in Handlers |-> IdleReq]
    /\ nreq = 0
    /\ faults = MaxFaults
    /\ batch = BatchIdle
    /\ twin = TwinIdle
    /\ nin = NoWebhook
    /\ nout = NotRun

\* the webhook picked is served by the modular build, then by the
\* monolithic build
NextTwin ==
    \/ TwinChoose
    \/ /\ twin.phase = "first"
       /\ nreq = twin.nreq
       /\ webhookHandler(SoleHandler, {TwinArrivals[twin.webhook].modular})
    \/ /\ twin.phase = "second"
       /\ nreq + 1 = twin.nreq
       /\ monolithicWebhookHandler(SoleHandler, {TwinArrivals[twin.webhook].monolithic})
    \/ ServeZapier(SoleHandler)
    \/ TwinSwap

SpecTwin == InitTwin /\ [][NextTwin]_vars

(***************************************************************************)
(* Batch reconciler (spec section 4.3): reconcile_snapshot over the store  *)
(* of the modular build, through Database.GetAllMemberStatuses and         *)
(* Database.UpdateMemberStatus                                             *)
(***************************************************************************)
\* the lower-cased emails of the members rows
ProjectedEmails == {ToLower(members[i].email) : i \in 1..Len(members)}

\* the last members row the scan of the rows files under email
LastRowFor(email) ==
    CHOOSE i \in 1..Len(members) :
        /\ ToLower(members[i].email) = email
        /\ \A j \in 1..Len(members) : ToLower(members[j].email) = email => j <= i

\* a projection that reports every member as active
GetAllMemberStatusesAllActive ==
    [e \in ProjectedEmails |-> "active"]

\* db.GetAllMemberStatuses: SELECT email, status FROM members into a map
\* keyed by strings.ToLower(email)

GetAllMemberStatuses ==
    [e \in ProjectedEmails |-> members[LastRowFor(e)].status]

\* the three staged sets of a snapshot against the email -> status projection
reconcile_snapshot(activeSet, statuses) ==
    [toAdd |-> activeSet \ DOMAIN statuses,
     toActivate |-> {e \in activeSet \cap DOMAIN statuses : statuses[e] # "active"},
     toDeactivate |-> {e \in DOMAIN statuses \ activeSet : statuses[e] = "active"}]

\* the emails a snapshot may list
SnapshotEmails == {"a@b", "q@r"}

\* the snapshots of active members handed to the reconciler
Snapshots == SUBSET SnapshotEmails

\* a run in progress
BatchRunning == batch.pc = "apply"

\* the run is over when nothing staged is left to apply
BatchPc(addLeft, activateLeft, deactivateLeft) ==
    IF addLeft \cup activateLeft \cup deactivateLeft = {} THEN "done" ELSE "apply"

\* a start after which a dry run applies what it staged, as a live run does
BatchStartApplying ==
    /\ variant = "modular"
    /\ Free(SoleHandler)
    /\ ~BatchRunning
    /\ nreq < MaxReq
    /\ nreq' = nreq + 1
    /\ \E activeSet \in Snapshots, dryRun \in BOOLEAN :
        LET staged == reconcile_snapshot(activeSet, GetAllMemberStatuses)
        IN  batch' =
              [BatchIdle EXCEPT
                 !.pc = BatchPc(staged.toAdd, staged.toActivate,
                                staged.toDeactivate),
                 !.dryRun = dryRun,
                 !.activeSet = activeSet,
                 !.toAdd = staged.toAdd,
                 !.toActivate = staged.toActivate,
                 !.toDeactivate = staged.toDeactivate,
                 !.addLeft = staged.toAdd,
                 !.activateLeft = staged.toActivate,
                 !.deactivateLeft = staged.toDeactivate]
    /\ UNCHANGED <<variant, storeVars, req, nin, nout, twin, faults>>

\* a run starts: the projection is read and the three sets are staged; a
\* dry run reports them and stops, a run over a failed read reports the error
BatchStart ==
    /\ variant = "modular"
    /\ Free(SoleHandler)
    /\ ~BatchRunning
    /\ nreq < MaxReq
    /\ nreq' = nreq + 1
    /\ \E activeSet \in Snapshots, dryRun \in BOOLEAN :
        \/ /\ MayFail
           /\ faults' = faults + 1
           /\ batch' = [BatchIdle EXCEPT !.pc = "done", !.dryRun = dryRun,
                                         !.activeSet = activeSet,
                                         !.err = DriverError]
        \/ /\ LET staged == reconcile_snapshot(activeSet, GetAllMemberStatuses)
              IN  batch' =
                    [BatchIdle EXCEPT
                       !.pc = IF dryRun THEN "done"
                              ELSE BatchPc(staged.toAdd, staged.toActivate,
                                           staged.toDeactivate),
                       !.dryRun = dryRun,
                       !.activeSet = activeSet,
                       !.toAdd = staged.toAdd,
                       !.toActivate = staged.toActivate,
                       !.toDeactivate = staged.toDeactivate,
                       !.addLeft = IF dryRun THEN {} ELSE staged.toAdd,
                       !.activateLeft = IF dryRun THEN {} ELSE staged.toActivate,
                       !.deactivateLeft =
                           IF dryRun THEN {} ELSE staged.toDeactivate]
           /\ UNCHANGED faults
    /\ UNCHANGED <<variant, storeVars, req, nin, nout, twin>>

\* Database.UpdateMemberStatus as one step of the run: the UPDATE, the
\* SELECT of the id and the INSERT of the history row; a failed UPDATE is
\* the only error the caller sees
BatchSetStatus(email, status, addLeft, activateLeft, deactivateLeft) ==
    \/ /\ MayFail
       /\ faults' = faults + 1
       /\ batch' = [batch EXCEPT
                      !.pc = BatchPc(addLeft, activateLeft, deactivateLeft),
                      !.addLeft = addLeft,
                      !.activateLeft = activateLeft,
                      !.deactivateLeft = deactivateLeft,
                      !.failed = @ \cup {email}]
       /\ UNCHANGED <<members, status_history>>
    \/ /\ members' = MembersAfterStatusSet(NormalizeEmail(email), status, Now)
       /\ status_history' =
            Append(status_history,
                   HistoryRow(members[LastRowFor(email)].id, status))
       /\ batch' = [batch EXCEPT
                      !.pc = BatchPc(addLeft, activateLeft, deactivateLeft),
                      !.addLeft = addLeft,
                      !.activateLeft = activateLeft,
                      !.deactivateLeft = deactivateLeft]
       /\ UNCHANGED faults

\* additions first: each staged email becomes a new active member
BatchAdd ==
    /\ BatchRunning
    /\ \E email \in batch.addLeft :
        \/ /\ MayFail
           /\ faults' = faults + 1
           /\ batch' = [batch EXCEPT
                          !.pc = BatchPc(batch.addLeft \ {email},
                                         batch.activateLeft,
                                         batch.deactivateLeft),
                          !.addLeft = @ \ {email},
                          !.failed = @ \cup {email}]
           /\ UNCHANGED <<members, status_history>>
        \/ /\ members' = MembersAfterInsert(email, "", FALSE, "active")
           /\ status_history' =
                Append(status_history, HistoryRow(Len(members) + 1, "active"))
           /\ batch' = [batch EXCEPT
                          !.pc = BatchPc(batch.addLeft \ {email},
                                         batch.activateLeft,
                                         batch.deactivateLeft),
                          !.addLeft = @ \ {email}]
           /\ UNCHANGED faults
    /\ UNCHANGED <<variant, webhook_logs, paymentVars, req, nreq, nin, nout, twin>>

\* then the activations
BatchActivate ==
    /\ BatchRunning
    /\ batch.addLeft = {}
    /\ \E email \in batch.activateLeft :
        BatchSetStatus(email, "active", {}, batch.activateLeft \ {email},
                       batch.deactivateLeft)
    /\ UNCHANGED <<variant, webhook_logs, paymentVars, req, nreq, nin, nout, twin>>

\* then the deactivations
BatchDeactivate ==
    /\ BatchRunning
    /\ batch.addLeft = {}
    /\ batch.activateLeft = {}
    /\ \E email \in batch.deactivateLeft :
        BatchSetStatus(email, "cancelled", {}, {},
                       batch.deactivateLeft \ {email})
    /\ UNCHANGED <<variant, webhook_logs, paymentVars, req, nreq, nin, nout, twin>>

\* the webhooks that shape the store between runs
BatchSeedWebhooks ==
    {MemberWebhook("A@b ", "Jane", "Payment Succeeded", "no"),
     MemberWebhook("A@b ", "Jane", "Payment Failed", "no"),
     MemberWebhook("c@d", "Jane", "Payment Succeeded", "no")}

BatchSeedArrivals ==
    {webhookHandlerStart(HttpRequest("POST", BearerOk, TRUE, w)) :
        w \in BatchSeedWebhooks}

InitBatch ==
    /\ variant = "modular"
    /\ EmptyStore
    /\ nin = NoWebhook
    /\ nout = NotRun

\* webhooks and runs of the reconciler, one after the other
NextBatch ==
    \/ (~BatchRunning /\ webhookHandler(SoleHandler, BatchSeedArrivals))
    \/ LogWebhook(SoleHandler)
    \/ ProcessMemberSelect(SoleHandler)
    \/ ProcessMemberInsert(SoleHandler)
    \/ ProcessMemberUpdate(SoleHandler)
    \/ ProcessMemberHistory(SoleHandler)
    \/ BatchStart
    \/ BatchAdd
    \/ BatchActivate
    \/ BatchDeactivate

SpecBatch == InitBatch /\ [][NextBatch]_vars

(***************************************************************************)
(* Read endpoints: /stats and /members                                     *)
(***************************************************************************)
\* the figures with the zero value of the struct where the Scan of a failed
\* query left the field alone
Scanned(figures, failedQueries) ==
    [q \in DOMAIN figures |-> IF q \in failedQueries THEN 0 ELSE figures[q]]

\* the sets of queries that can fail while at most n more faults occur
FailingQueries(queries, n) ==
    {f \in SUBSET queries : Cardinality(f) <= n}

\* Database.GetStats: four COUNT queries, the first error is returned
GetStats(failedQueries) ==
    IF failedQueries # {}
    THEN [err |-> DriverError, stats |-> <<>>]
    ELSE [err |-> "",
          stats |->
            [total_members |-> Len(members),
             active_members |->
                 Cardinality({i \in 1..Len(members) : members[i].status = "active"}),
             cancelled_members |->
                 Cardinality({i \in 1..Len(members) : members[i].status = "cancelled"}),
             anonymous_members |->
                 Cardinality({i \in 1..Len(members) : members[i].is_anonymous})]]

\* the answer of a read endpoint
Answered(route, code, body) ==
    [Returned(Arrived(HttpRequest("GET", NoCredentials, FALSE, NoWebhook)), "", code)
        EXCEPT !.route = route, !.body = body]

\* WebhookServer.statsHandler: an error of GetStats is answered 500
statsHandler(p) ==
    /\ variant = "modular"
    /\ Free(p)
    /\ nreq < MaxReq
    /\ nreq' = nreq + 1
    /\ \E failedQueries \in FailingQueries(DOMAIN GetStats({}).stats,
                                               IF MayFail THEN 1 ELSE 0) :
        /\ faults' = faults + Cardinality(failedQueries)
        /\ LET result == GetStats(failedQueries)
           IN  req' = [req EXCEPT ![p] =
                         IF result.err # ""
                         THEN [Answered("/stats", 500, <<>>)
                                  EXCEPT !.failed = failedQueries]
                         ELSE Answered("/stats", 200, result.stats)]
    /\ UNCHANGED <<variant, storeVars, normVars>>

\* statsHandler of the monolithic build: four QueryRow(...).Scan(...) whose
\* errors are dropped, then the struct is encoded
monolithicStatsHandler(p) ==
    /\ variant = "monolithic"
    /\ Free(p)
    /\ nreq < MaxReq
    /\ nreq' = nreq + 1
    /\ LET stats == GetStats({}).stats IN
       \E failedQueries \in FailingQueries(DOMAIN stats, MaxFaults - faults) :
        /\ faults' = faults + Cardinality(failedQueries)
        /\ req' = [req EXCEPT ![p] =
                     [Answered("/stats", 200, Scanned(stats, failedQueries))
                         EXCEPT !.failed = failedQueries]]
    /\ UNCHANGED <<variant, storeVars, normVars>>

\* SELECT COALESCE(SUM(total_donated), 0) FROM members, over the first n rows
RECURSIVE SumTotalDonated(_)
SumTotalDonated(n) ==
    IF n = 0 THEN 0 ELSE members[n].total_donated + SumTotalDonated(n - 1)

\* statsHandler of the donation build: QueryRow(...).Scan(...) whose errors
\* are dropped (monthly_revenue sums a column outside the model; every
\* cancelled_date of a run lies in the current month)
donationStatsHandler(p) ==
    /\ variant = "donation"
    /\ Free(p)
    /\ nreq < MaxReq
    /\ nreq' = nreq + 1
    /\ LET stats ==
            [total_members |-> Len(members),
             active_members |->
                 Cardinality({i \in 1..Len(members) : members[i].status = "active"}),
             total_donated |-> SumTotalDonated(Len(members)),
             churned_this_month |->
                 Cardinality({i \in 1..Len(members) : members[i].cancelled_date})]
       IN
       \E failedQueries \in FailingQueries(DOMAIN stats, MaxFaults - faults) :
        /\ faults' = faults + Cardinality(failedQueries)
        /\ req' = [req EXCEPT ![p] =
                     [Answered("/stats", 200, Scanned(stats, failedQueries))
                         EXCEPT !.failed = failedQueries]]
    /\ UNCHANGED <<variant, storeVars, normVars>>

\* what rows.Next delivers of the rows selected: all of them, or, when the
\* iteration breaks off (rows.Err is never read), the rows that come first
\* in the order of the query (before holds the pairs of rows <<i, j>> such
\* that i may come before j)
Delivered(selected, before, complete) ==
    {shown \in SUBSET selected :
        /\ complete <=> shown = selected
        /\ \A i \in shown, j \in selected \ shown : <<i, j>> \in before}

\* Database.GetMembers: SELECT ... FROM members [WHERE status = $1] ORDER BY
\* last_updated DESC; the name is left out of an anonymous member's map. The
\* listings the call can return, complete or broken off
GetMembers(statusFilter, complete) ==
    LET selected ==
            {i \in 1..Len(members) :
                statusFilter = "" \/ members[i].status = statusFilter}
        UpdatedBefore ==
            {ij \in selected \X selected :
                members[ij[1]].last_updated >= members[ij[2]].last_updated}
    IN  {{[email |-> members[i].email,
           status |-> members[i].status,
           is_anonymous |-> members[i].is_anonymous,
           hasName |-> ~members[i].is_anonymous,
           name |-> IF members[i].is_anonymous THEN "" ELSE members[i].name] :
             i \in shown} :
         shown \in Delivered(selected, UpdatedBefore, complete)}

\* a listing: the query fails and the answer is 500, or the rows delivered
\* are encoded
ListMembers(p, listings, brokenOff) ==
    /\ Free(p)
    /\ nreq < MaxReq
    /\ nreq' = nreq + 1
    /\ \/ /\ MayFail
          /\ faults' = faults + 1
          /\ req' = [req EXCEPT ![p] =
                       [Answered("/members", 500, <<>>) EXCEPT !.failed = {"query"}]]
       \/ /\ MayFail
          /\ faults' = faults + 1
          /\ \E listing \in brokenOff :
                req' = [req EXCEPT ![p] =
                          [Answered("/members", 200, listing)
                              EXCEPT !.failed = {"rows"}]]
       \/ /\ \E listing \in listings :
                req' = [req EXCEPT ![p] = Answered("/members", 200, listing)]
          /\ UNCHANGED faults
    /\ UNCHANGED <<variant, storeVars, normVars>>

\* WebhookServer.listMembersHandler: GetMembers(status, 100), an error is
\* answered 500
listMembersHandler(p) ==
    /\ variant = "modular"
    /\ \E statusFilter \in {"", "active"} :
        ListMembers(p, GetMembers(statusFilter, TRUE), GetMembers(statusFilter, FALSE))

\* listMembersHandler of the monolithic build: the same query and maps,
\* written in the handler
monolithicListMembersHandler(p) ==
    /\ variant = "monolithic"
    /\ \E statusFilter \in {"", "active"} :
        ListMembers(p, GetMembers(statusFilter, TRUE), GetMembers(statusFilter, FALSE))

\* listMembersHandler of the donation build: every member, ORDER BY
\* created_at DESC, with email, name, status and total_donated
donationListMembersHandler(p) ==
    /\ variant = "donation"
    /\ LET CreatedBefore ==
            {ij \in (1..Len(members)) \X (1..Len(members)) : ij[1] > ij[2]}
           Listings(complete) ==
            {{[email |-> members[i].email, name |-> members[i].name,
               status |-> members[i].status,
               total_donated |-> members[i].total_donated] : i \in shown} :
             shown \in Delivered(1..Len(members), CreatedBefore, complete)}
       IN  ListMembers(p, Listings(TRUE), Listings(FALSE))

\* Database.GetRecentMembers: SELECT email, name, status, last_updated FROM
\* members ORDER BY last_updated DESC LIMIT $1; is_anonymous is not selected
\* and the name is put into the map whenever one is stored. The listings the
\* call can return, complete or broken off (rows.Err is never read)
GetRecentMembers(limit, complete) ==
    LET all == 1..Len(members)
        UpdatedBefore ==
            {ij \in all \X all :
                members[ij[1]].last_updated >= members[ij[2]].last_updated}
        wanted == IF limit < Len(members) THEN limit ELSE Len(members)
        firstRows ==
            {shown \in Delivered(all, UpdatedBefore, TRUE)
                       \cup Delivered(all, UpdatedBefore, FALSE) :
                IF complete THEN Cardinality(shown) = wanted
                            ELSE Cardinality(shown) < wanted}
    IN  {{[email |-> members[i].email,
           status |-> members[i].status,
           last_updated |-> members[i].last_updated,
           hasName |-> members[i].name # "",
           name |-> members[i].name] : i \in shown} :
         shown \in firstRows}

\* a call of Database.GetRecentMembers on the modular build's store: the
\* query fails and the error is returned, or the maps of the rows delivered
\* are returned with a nil error
CallGetRecentMembers(p) ==
    /\ variant = "modular"
    /\ Free(p)
    /\ nreq < MaxReq
    /\ nreq' = nreq + 1
    /\ \E limit \in {1, 10} :
        \/ /\ MayFail
           /\ faults' = faults + 1
           /\ req' = [req EXCEPT ![p] =
                        [Answered("GetRecentMembers", 0, <<>>)
                            EXCEPT !.failed = {"query"}, !.err = "query"]]
        \/ /\ MayFail
           /\ faults' = faults + 1
           /\ \E listing \in GetRecentMembers(limit, FALSE) :
                 req' = [req EXCEPT ![p] =
                           [Answered("GetRecentMembers", 0, listing)
                               EXCEPT !.failed = {"rows"}]]
        \/ /\ \E listing \in GetRecentMembers(limit, TRUE) :
                 req' = [req EXCEPT ![p] = Answered("GetRecentMembers", 0, listing)]
           /\ UNCHANGED faults
    /\ UNCHANGED <<variant, storeVars, normVars>>

\* the builds that serve /stats and /members
InitRead ==
    /\ variant \in {"modular", "monolithic", "donation"}
    /\ EmptyStore
    /\ nin = NoWebhook
    /\ nout = NotRun

\* webhooks and reads, one after the other
NextRead ==
    \/ webhookHandler(SoleHandler, ModularRaceArrivals)
    \/ monolithicWebhookHandler(SoleHandler, MonolithicRaceArrivals)
    \/ donationWebhookHandler(SoleHandler, DonationArrivals)
    \/ ServeZapier(SoleHandler)
    \/ ServeDonation(SoleHandler)
    \/ statsHandler(SoleHandler)
    \/ monolithicStatsHandler(SoleHandler)
    \/ donationStatsHandler(SoleHandler)
    \/ listMembersHandler(SoleHandler)
    \/ monolithicListMembersHandler(SoleHandler)
    \/ donationListMembersHandler(SoleHandler)
    \/ CallGetRecentMembers(SoleHandler)

SpecRead == InitRead /\ [][NextRead]_vars

(***************************************************************************)
(* Reading the store                                                       *)
(***************************************************************************)
\* no request is being served
Quiescent == \A p \in Handlers : Free(p)

\* the statuses of the status_history rows of member id, oldest first
RECURSIVE StatusesOf(_, _)
StatusesOf(rows, id) ==
    IF rows = <<>> THEN <<>>
    ELSE IF Head(rows).member_id = id
         THEN <<Head(rows).status>> \o StatusesOf(Tail(rows), id)
         ELSE StatusesOf(Tail(rows), id)

\* the normalized form of every email the requests carry
\* every email a request carries, and the forms the handlers derive
EmailInputs ==
    {w.email : w \in Webhooks \cup RaceWebhooks}
    \cup {r.webhook.email : r \in DonationRequests}
    \cup {r.webhook.subscriber.email : r \in PayPalRequests}
    \cup {r.webhook.payer.email : r \in PayPalRequests}
    \cup {r.webhook.payer_info.email : r \in PayPalRequests}
EmailForms ==
    EmailInputs \cup {NormalizeEmail(x) : x \in EmailInputs}
                \cup {ToLower(x) : x \in EmailInputs}
NormalizedInput == [e \in EmailForms |-> NormalizeEmail(e)]

\* the statuses of the webhook_logs rows written for email, oldest first
RECURSIVE LoggedStatuses(_, _)
LoggedStatuses(rows, email) ==
    IF rows = <<>> THEN <<>>
    ELSE IF NormalizedInput[Head(rows).email] = email
         THEN <<Head(rows).status>> \o LoggedStatuses(Tail(rows), email)
         ELSE LoggedStatuses(Tail(rows), email)

LogStatuses == {"active", "cancelled", "suspended"}

(***************************************************************************)
(* Claims                                                                  *)
(***************************************************************************)
\* rows with runs of equal neighbours reduced to their first element
RECURSIVE Compress(_)
Compress(seq) ==
    IF Len(seq) < 2 THEN seq
    ELSE IF seq[1] = seq[2] THEN Compress(Tail(seq))
         ELSE <<seq[1]>> \o Compress(Tail(seq))

\* C1: with no overlapping requests and no store failure, an event whose
\* status equals the member's current status appends no history entry: a
\* member's history is the statuses of its events without the repetitions,
\* so status A followed by A again leaves exactly one entry (A).
C1_RepeatedStatusAppendsNothing ==
    (variant \in ZapierBuilds /\ Quiescent /\ faults = 0) =>
        \A i \in 1..Len(members) :
            LET logged == LoggedStatuses(webhook_logs, members[i].email)
                history == StatusesOf(status_history, members[i].id)
            IN /\ history = Compress(logged)
               /\ \A A \in LogStatuses : logged = <<A, A>> => history = <<A>>

\* C1 witness: two events with the same status have been reconciled for a
\* member, with no failure
C1_Witness ==
    /\ variant \in ZapierBuilds
    /\ Quiescent
    /\ faults = 0
    /\ \E i \in 1..Len(members) : \E A \in LogStatuses :
        /\ LoggedStatuses(webhook_logs, members[i].email) = <<A, A>>
        /\ members[i].status = A

\* C2 (as claimed): a member whose anonymity flag is true has an empty
\* stored display name.
C2_AnonymousHasNoName ==
    variant \in ZapierBuilds =>
    \A i \in 1..Len(members) : members[i].is_anonymous => members[i].name = ""

\* the UPDATE of handler p has just been applied
UpdateApplied(p) ==
    /\ req[p].pc = "update"
    /\ req'[p].pc # "update"
    /\ "update" \notin req'[p].failed

\* C3: when an event is reconciled for an existing member, the stored name
\* afterwards is the previously stored name if the event is anonymous or its
\* incoming name is empty, and the incoming name otherwise.
C3_NamePreservedOrOverwritten ==
    [][\A p \in Handlers :
         UpdateApplied(p) =>
            /\ Len(members') = Len(members)
            /\ \A i \in 1..Len(members) :
                 members[i].id = req[p].memberID =>
                    members'[i].name =
                        IF req[p].isAnonymous \/ req[p].webhook.name = ""
                        THEN members[i].name
                        ELSE req[p].webhook.name]_vars

\* C3 witness: an anonymous event carrying a name has updated a member that
\* still has its stored name
C3_Witness ==
    \E p \in Handlers :
        /\ req[p].pc = "history"
        /\ req[p].currentStatus # ""
        /\ req[p].isAnonymous
        /\ req[p].webhook.name = "Jane"
        /\ members[req[p].memberID].name = "Jane"
        /\ members[req[p].memberID].is_anonymous

HasCancel(status) == Contains(ToLower(status), "cancel")
HasActiveWord(status) ==
    \/ Contains(ToLower(status), "succeed")
    \/ Contains(ToLower(status), "success")
    \/ Contains(ToLower(status), "active")

\* C4 (as claimed): every input status containing "cancel", whatever
\* surrounds it, is normalized to cancelled.
C4_AnyCancelIsCancelled ==
    (nout.done /\ nout.err = "" /\ HasCancel(nin.status))
        => nout.status = "cancelled"

\* C4 (amended): every input status that contains "cancel" and none of
\* "succeed", "success", "active" is normalized to cancelled, whatever else
\* surrounds it.
C4_CancelWithoutActiveWordIsCancelled ==
    (nout.done /\ nout.err = "" /\ HasCancel(nin.status) /\ ~HasActiveWord(nin.status))
        => nout.status = "cancelled"

\* C4 witness: "cancel" next to a word of a later rung has been normalized
C4_Witness ==
    /\ nout.done
    /\ nin.status = "Suspended, then cancelled"
    /\ nout.status = "cancelled"

\* the ladder as the claim states it
LadderResult(status) ==
    LET l == ToLower(status) IN
    CASE Contains(l, "succeed") \/ Contains(l, "success") \/ Contains(l, "active")
            -> "active"
      [] ~(Contains(l, "succeed") \/ Contains(l, "success") \/ Contains(l, "active"))
         /\ (Contains(l, "fail") \/ Contains(l, "cancel") \/ Contains(l, "refund"))
            -> "cancelled"
      [] ~(Contains(l, "succeed") \/ Contains(l, "success") \/ Contains(l, "active"))
         /\ ~(Contains(l, "fail") \/ Contains(l, "cancel") \/ Contains(l, "refund"))
         /\ (Contains(l, "suspend") \/ Contains(l, "pend"))
            -> "suspended"
      [] OTHER -> "active"

\* C5: the normalizer is a first-match ladder over the lower-cased input
\* (active words, then cancelled words, then suspended words, else active):
\* "Pending Review" gives suspended, "foobar" gives active, a string
\* matching several rungs takes the earliest.
C5_FirstMatchLadder ==
    (nout.done /\ nout.err = "") =>
        /\ nout.status = LadderResult(nin.status)
        /\ nin.status = "Pending Review" => nout.status = "suspended"
        /\ nin.status = "foobar" => nout.status = "active"
        /\ nin.status = "Cancelled (was Active)" => nout.status = "active"
        /\ nin.status = "Refund pending" => nout.status = "cancelled"

\* C5 witness: a status matching two rungs has been normalized by the
\* earlier one
C5_Witness ==
    /\ nout.done
    /\ nin.status = "Refund pending"
    /\ nout.status = "cancelled"
    /\ nout.err = ""

\* no two rows of the member table carry the same email
UniqueEmails(rows) ==
    \A i, j \in 1..Len(rows) : rows[i].email = rows[j].email => i = j

\* the INSERT of handler p has just been attempted
InsertAttempted(p) ==
    /\ req[p].pc = "insert"
    /\ req'[p].pc # "insert"

\* C7: under any interleaving of concurrent requests the member table never
\* holds two rows with the same normalized email; of the requests that saw
\* 'not found' for an email, the one inserting first creates the member and
\* one inserting after it fails without applying its status or writing history.
C7_OneMemberPerEmail ==
    [][/\ UniqueEmails(members')
       /\ \A i \in 1..Len(members') : NormalizedInput[members'[i].email] = members'[i].email
       /\ \A p \in Handlers :
            InsertAttempted(p) =>
                IF \E i \in 1..Len(members) : members[i].email = req[p].email
                THEN /\ req'[p].pc = "done"
                     /\ req'[p].err = "failed to create member"
                     /\ members' = members
                     /\ status_history' = status_history
                ELSE \/ "insert" \in req'[p].failed
                     \/ /\ Len(members') = Len(members) + 1
                        /\ members'[Len(members')].email = req[p].email
                        /\ members'[Len(members')].status = req[p].status]_vars

\* C7 witness: two overlapping requests for one email both saw 'not found';
\* one created the member and the other failed on its INSERT
C7_Witness ==
    /\ nreq = 2
    /\ faults = 0
    /\ \A p \in Handlers : req[p].pc = "done"
    /\ \E p, q \in Handlers :
        /\ req[p].err = ""
        /\ req[q].err = "failed to create member"
        /\ "insert" \notin req[q].failed
    /\ Len(members) = 1
    /\ Len(status_history) = 1

\* the email column of a member row in the running build
EmailOf(row) == IF variant = "paypal" THEN row.paypal_email ELSE row.email

\* the status column of a member row in the running build
StatusOf(row) == IF variant = "paypal" THEN row.subscription_status ELSE row.status

\* C6 (as claimed): every email in the member table and in the audit log, in
\* every build, is the lower-cased, whitespace-trimmed form of the incoming
\* email.
C6_StoredEmailsNormalized ==
    /\ \A i \in 1..Len(members) :
          NormalizedInput[EmailOf(members[i])] = EmailOf(members[i])
    /\ \A i \in 1..Len(webhook_logs) :
          NormalizedInput[webhook_logs[i].email] = webhook_logs[i].email

StatusEnum == {"active", "cancelled", "suspended", "pending", "payment_failed"}

\* the input statuses with none of the normalizer's keywords
Unrecognized ==
    {s \in {w.status : w \in Webhooks \cup RaceWebhooks} :
        LET l == ToLower(s) IN
        \A k \in {"succeed", "success", "active", "fail", "cancel", "refund",
                  "suspend", "pend"} : ~Contains(l, k)}

\* C8: after any sequence of webhook events, in every build, each member's
\* stored status is one of active, cancelled, suspended, pending,
\* payment_failed; an input status the normalizer does not recognize is
\* stored as active.
C8_StoredStatusInEnum ==
    [][/\ \A i \in 1..Len(members') : StatusOf(members'[i]) \in StatusEnum
       /\ \A p \in Handlers :
            (/\ variant \in ZapierBuilds
             /\ req[p].pc \in {"insert", "update"}
             /\ members' # members
             /\ req[p].webhook.status \in Unrecognized)
            => \E i \in 1..Len(members') :
                  /\ members'[i].email = req[p].email
                  /\ members'[i].status = "active"]_vars

\* C8 witness: an event with an unrecognized status has been stored, and
\* the member is active
C8_Witness ==
    \E p \in Handlers :
        /\ req[p].pc = "history"
        /\ req[p].webhook.status = "foobar"
        /\ members[req[p].memberID].status = "active"
        /\ members[req[p].memberID].email = req[p].email

\* the credentials each build is meant to accept
AcceptedBy(build, cred) ==
    \/ build = "paypal"
    \/ cred = BearerOk
    \/ /\ build \in ZapierBuilds
       /\ cred \in {Credentials("Basic", "zapier:" \o WebhookSecret, ""),
                    Credentials("Basic", WebhookSecret \o ":x", ""),
                    Credentials("", "", WebhookSecret)}

\* C9: every authorized POST whose body parses as JSON is answered with
\* HTTP 200, whatever the outcome of the reconciliation: a validation
\* failure or a store failure never changes the response.
C9_AuthorizedPostAnswered200 ==
    \A p \in Handlers :
        (/\ req[p].pc = "done"
         /\ req[p].method = "POST"
         /\ AcceptedBy(variant, req[p].cred)
         /\ req[p].jsonOk)
        => req[p].response = 200

\* C9 witness: a request whose reconciliation failed on a store statement
\* has been answered with 200
C9_Witness ==
    \E p \in Handlers :
        /\ req[p].pc = "done"
        /\ req[p].failed # {}
        /\ req[p].err # ""
        /\ req[p].response = 200

\* the store statements of the reconciliation (the audit-log write is not
\* one of them)
ReconcileStatements ==
    {"select", "insert", "update", "history",
     "new_select", "new_insert", "new_update", "new_payment", "new_total",
     "cancel", "pay_select", "pay_insert", "pay_update", "fail_update",
     "act_select", "act_insert", "act_update", "act_history",
     "sub_cancel", "sub_suspend", "sub_reactivate", "sub_history",
     "sale_lookup", "sale_payer", "sale_select", "sale_insert"}

\* C10 (as claimed): a store failure in any statement of the reconciliation
\* makes the reconciliation return an error, and nothing runs after the
\* failed statement.
C10_StoreFailureReturned ==
    \A p \in Handlers :
        /\ (req[p].pc = "done" /\ req[p].failed \cap ReconcileStatements # {})
              => req[p].err # ""
        /\ (req[p].pc \notin {"idle", "done"})
              => req[p].failed \cap ReconcileStatements = {}


\* the statements of the Zapier find-or-create
ZapierStatements == {"select", "insert", "update", "history"}

\* request p has just been turned down for its email
RejectedForEmail(p) ==
    /\ req'[p] # req[p]
    /\ req'[p].pc = "done"
    /\ req'[p].err = "email is required"

\* C11 (as claimed): a webhook whose email is empty after trimming is
\* rejected with a validation error before reaching the store: no member,
\* history or audit-log row is written for it.
C11_BlankEmailWritesNothing ==
    [][\A p \in Handlers :
          RejectedForEmail(p) =>
              /\ members' = members
              /\ status_history' = status_history
              /\ webhook_logs' = webhook_logs]_vars

\* C11 (amended): in the Zapier builds a webhook whose email is empty after
\* trimming fails with 'email is required' before any statement of the
\* find-or-create runs, and no member or history row is written for it; the
\* only row it can leave is the audit-log entry of the modular build, which
\* logs the raw email before the email is validated.
C11_BlankEmailWritesNoMember ==
    [][\A p \in Handlers :
          /\ RejectedForEmail(p) =>
                /\ members' = members
                /\ status_history' = status_history
                /\ paymentVars' = paymentVars
                /\ webhook_logs' # webhook_logs =>
                      /\ variant = "modular"
                      /\ req[p].pc = "log"
                      /\ NormalizedInput[req[p].webhook.email] = ""
                      /\ webhook_logs' =
                           Append(webhook_logs,
                                  LogRow(req[p].webhook.email, req[p].status))
          /\ (/\ variant = "modular"
              /\ req[p].pc = "log"
              /\ req'[p].pc # "log"
              /\ NormalizedInput[req[p].webhook.email] = "")
             => RejectedForEmail(p)
          /\ (variant \in ZapierBuilds /\ req'[p].pc \in ZapierStatements)
             => req'[p].email # ""]_vars

\* C11 witness: the modular build has turned down a blank email and its
\* audit-log entry is in the store, with no member and no history row
C11_Witness ==
    /\ variant = "modular"
    /\ req[SoleHandler].pc = "done"
    /\ req[SoleHandler].err = "email is required"
    /\ req[SoleHandler].failed = {}
    /\ nreq = 1
    /\ Len(webhook_logs) = 1
    /\ NormalizedInput[webhook_logs[1].email] = ""
    /\ members = <<>>
    /\ status_history = <<>>

\* C12 (as claimed): a validation error is surfaced through the HTTP status:
\* an authorized webhook with an empty email receives a non-success
\* response.
C12_BlankEmailAnsweredWithError ==
    \A p \in Handlers :
        (req[p].pc = "done" /\ req[p].err = "email is required")
        => req[p].response \notin 200..299

\* C12 (amended): a validation error is not surfaced through the HTTP
\* status: an authorized webhook with an empty email is answered 200 like
\* any other authorized webhook and the error is only logged; the statuses
\* that do reach the caller are 405 for a method other than POST, 401 for
\* an unauthorized request and 400 for a body that does not parse.
C12_BlankEmailAnswered200 ==
    \A p \in Handlers :
        req[p].pc = "done" =>
            /\ req[p].err = "email is required" =>
                  /\ req[p].response = 200
                  /\ req[p].method = "POST"
                  /\ AcceptedBy(variant, req[p].cred)
                  /\ req[p].jsonOk
            /\ req[p].response # 200 =>
                  /\ req[p].err = ""
                  /\ req[p].response =
                        IF req[p].method # "POST" THEN 405
                        ELSE IF ~AcceptedBy(variant, req[p].cred) THEN 401
                        ELSE 400
                  /\ req[p].response = 400 => ~req[p].jsonOk

\* C12 witness: an authorized webhook with a blank email has been answered
\* 200 with the validation error only logged
C12_Witness ==
    \E p \in Handlers :
        /\ req[p].pc = "done"
        /\ req[p].err = "email is required"
        /\ req[p].cred = BearerOk
        /\ req[p].response = 200

\* the builds that keep an audit log
LoggingBuilds == {"modular", "monolithic", "donation"}

\* C13 (as claimed): every received webhook event leaves exactly one
\* audit-log entry whatever the outcome of its processing, also when its
\* validation fails (empty email) or its reconciliation fails: each request
\* that passes the method, authorization and parse checks goes through the
\* log statement, the log statement appends one row unless the write itself
\* fails, and no other statement touches the log.
C13_EveryEventLoggedOnce ==
    [][/\ (/\ variant \in LoggingBuilds
           /\ Free(SoleHandler)
           /\ req'[SoleHandler] # req[SoleHandler])
          => (\/ req'[SoleHandler].pc = "log"
              \/ req'[SoleHandler].response \in {400, 401, 405})
       /\ (/\ variant \in LoggingBuilds
           /\ req[SoleHandler].pc = "log"
           /\ req'[SoleHandler].pc # "log"
           /\ "log" \notin req'[SoleHandler].failed)
          => (Len(webhook_logs') = Len(webhook_logs) + 1)
       /\ (req[SoleHandler].pc # "log") => (webhook_logs' = webhook_logs)]_vars

\* the audit-log statement of request p has just run
LogStatementRan(p) ==
    /\ req[p].pc = "log"
    /\ req'[p].pc # "log"

\* the statement the donation build's switch enters for an event type
DonationEntry(type) ==
    CASE type \in {"new_subscription", "new_recurring"} -> "new_select"
      [] type \in {"cancelled", "subscription_cancelled"} -> "cancel"
      [] type \in {"payment", "payment_received"} -> "pay_select"
      [] type \in {"failed", "payment_failed"} -> "fail_update"
      [] OTHER -> "done"

\* C14: a failure of the audit-log write is not fatal: the reconciliation
\* still runs and is entered exactly as after a successful log write (same
\* statement, same email, status, anonymity and name, no error for the
\* failed write), with the member and history tables as they were; the only
\* difference is the missing audit-log row.
C14_LogFailureNotFatal ==
    [][\A p \in Handlers :
          LogStatementRan(p) =>
              /\ members' = members
              /\ status_history' = status_history
              /\ paymentVars' = paymentVars
              /\ req'[p].failed \ {"log"} = req[p].failed
              /\ IF "log" \in req'[p].failed
                 THEN webhook_logs' = webhook_logs
                 ELSE /\ Len(webhook_logs') = Len(webhook_logs) + 1
                      /\ SubSeq(webhook_logs', 1, Len(webhook_logs)) = webhook_logs
              /\ req'[p].err \in {"", "email is required"}
              /\ req'[p].pc # "done" =>
                    /\ req'[p].webhook = req[p].webhook
                    /\ req'[p].email = NormalizedInput[req[p].webhook.email]
                    /\ req'[p].err = ""
              /\ variant = "modular" =>
                    IF NormalizedInput[req[p].webhook.email] = ""
                    THEN req'[p].pc = "done" /\ req'[p].err = "email is required"
                    ELSE /\ req'[p].pc = "select"
                         /\ req'[p].status = req[p].status
                         /\ req'[p].isAnonymous = req[p].isAnonymous
                         /\ req'[p].name =
                              IF req[p].isAnonymous THEN "" ELSE req[p].webhook.name
              /\ variant = "monolithic" =>
                    req'[p] = [req[p] EXCEPT !.pc = "select",
                                             !.failed = req'[p].failed]
              /\ variant = "donation" =>
                    /\ req'[p].pc = DonationEntry(req[p].webhook.event_type)
                    /\ req'[p].err = ""]_vars

\* C14 witness: the audit-log write of the only request failed, and the
\* member and its history row were created all the same
C14_Witness ==
    /\ variant \in ZapierBuilds
    /\ nreq = 1
    /\ req[SoleHandler].pc = "done"
    /\ req[SoleHandler].failed = {"log"}
    /\ req[SoleHandler].err = ""
    /\ webhook_logs = <<>>
    /\ Len(members) = 1
    /\ Len(status_history) = 1
    /\ status_history[1].status = members[1].status

\* the position of the first colon of s, 0 when there is none
FirstColon(s) ==
    IF \E i \in 1..Len(s) : CharAt(s, i) = ":"
    THEN CHOOSE i \in 1..Len(s) :
            /\ CharAt(s, i) = ":"
            /\ \A k \in 1..(i - 1) : CharAt(s, k) # ":"
    ELSE 0

\* the shared secret is in the bearer token, in the username or the
\* password slot of Basic credentials, or in the custom secret header
SecretPresented(cred) ==
    \/ cred.scheme = "Bearer" /\ cred.rest = WebhookSecret
    \/ /\ cred.scheme = "Basic"
       /\ FirstColon(cred.rest) > 0
       /\ \/ SubSeq(cred.rest, 1, FirstColon(cred.rest) - 1) = WebhookSecret
          \/ SubSeq(cred.rest, FirstColon(cred.rest) + 1, Len(cred.rest))
                = WebhookSecret
    \/ cred.xsecret = WebhookSecret

\* the credentials of the inputs that present the secret
SecretPresenting == {c \in CredentialInputs : SecretPresented(c)}

\* C15: in the Zapier builds a webhook request is authorized if and only if
\* the bearer token, the username or the password slot of Basic credentials,
\* or the custom secret header matches the shared secret; a POST matching
\* none of them is answered 401 and no statement of the store runs for it.
C15_AuthorizedIffSecretPresented ==
    [][\A p \in Handlers :
          /\ (/\ variant \in ZapierBuilds
              /\ Free(p)
              /\ req'[p] # req[p]
              /\ req'[p].method = "POST")
             => /\ (req'[p].response = 401) <=> (req'[p].cred \notin SecretPresenting)
                /\ req'[p].response = 401 =>
                      /\ req'[p].pc = "done"
                      /\ storeVars' = storeVars
          /\ (variant \in ZapierBuilds /\ ~Free(p))
             => req[p].cred \in SecretPresenting]_vars

\* C15 witness: after an authorized request created a member, a request
\* with Basic credentials that hold the secret in no slot was answered 401
\* and the store is as the first request left it
C15_Witness ==
    /\ variant \in ZapierBuilds
    /\ nreq = 2
    /\ faults = 0
    /\ req[SoleHandler].pc = "done"
    /\ req[SoleHandler].response = 401
    /\ req[SoleHandler].cred = Credentials("Basic", WebhookSecret, "")
    /\ Len(members) = 1
    /\ Len(status_history) = 1
    /\ Len(webhook_logs) = 1

\* a statement that cancels has just changed the member table for p
CancellationApplied(p) ==
    /\ members' # members
    /\ \/ req[p].pc \in {"cancel", "sub_cancel"}
       \/ req[p].pc = "update" /\ req[p].status = "cancelled"
       \/ req'[p].pc = "set_select" /\ req'[p].status = "cancelled"

\* C16: no operation removes a member: across webhook events of every build
\* and calls of UpdateMemberStatus each row keeps its place, id and email,
\* so the set of stored emails only grows; a cancellation sets the status of
\* the rows it touches to cancelled and leaves them in the table.
C16_MembersNeverRemoved ==
    [][/\ Len(members') >= Len(members)
       /\ \A i \in 1..Len(members) :
            /\ members'[i].id = members[i].id
            /\ EmailOf(members'[i]) = EmailOf(members[i])
       /\ \A p \in Handlers :
            CancellationApplied(p) =>
                /\ Len(members') = Len(members)
                /\ \A i \in 1..Len(members) :
                      members'[i] # members[i] => StatusOf(members'[i]) = "cancelled"]_vars

\* C16 witness: the only member has been cancelled and is still stored
C16_Witness ==
    /\ Len(members) = 1
    /\ StatusOf(members[1]) = "cancelled"
    /\ nreq = 2
    /\ req[SoleHandler].pc = "done"
    /\ req[SoleHandler].err = ""
    /\ req[SoleHandler].failed = {}
    /\ variant \in {"donation", "paypal"} \/ req[SoleHandler].response = 0

\* the payloads of the Zapier builds' runs
ZapierPayloads == Webhooks \cup RaceWebhooks \cup {DefaultWebhook}

\* the status the ladder gives each input status
MappedStatus == [s \in {w.status : w \in ZapierPayloads} |-> LadderResult(s)]

\* the anonymity each input flag stands for
MappedAnonymity ==
    [a \in {w.anonymous : w \in ZapierPayloads} |->
        ToLower(TrimSpace(a)) \in {"true", "yes", "1"}]

\* the INSERT of request p has just created a member
MemberCreated(p) ==
    /\ variant \in ZapierBuilds
    /\ req[p].pc = "insert"
    /\ members' # members

\* the history statement of a request that created its member has just run
\* without failing
FirstHistoryWritten(p) ==
    /\ variant \in ZapierBuilds
    /\ req[p].pc = "history"
    /\ req[p].currentStatus = ""
    /\ req'[p].pc = "done"
    /\ "history" \notin req'[p].failed

\* C17: in the Zapier builds the first event for an email not yet stored
\* creates one member with the normalized email, the mapped status, the
\* anonymity flag and the name after suppression (empty when anonymous),
\* and appends exactly one history entry with that status; the payload
\* {"A@B.com ", "Payment Succeeded", "True", "Jane"} gives a@b.com, active,
\* anonymous, no name.
C17_FirstEventCreatesMember ==
    [][\A p \in Handlers :
          /\ MemberCreated(p) =>
                LET w == req[p].webhook
                    row == members'[Len(members')]
                IN  /\ \A i \in 1..Len(members) :
                          members[i].email # NormalizedInput[w.email]
                    /\ Len(members') = Len(members) + 1
                    /\ SubSeq(members', 1, Len(members)) = members
                    /\ row.email = NormalizedInput[w.email]
                    /\ row.status = MappedStatus[w.status]
                    /\ row.is_anonymous = MappedAnonymity[w.anonymous]
                    /\ row.name = IF MappedAnonymity[w.anonymous] THEN "" ELSE w.name
                    /\ w = MemberWebhook("A@B.com ", "Jane", "Payment Succeeded", "True")
                          => /\ row.email = "a@b.com"
                             /\ row.status = "active"
                             /\ row.is_anonymous = TRUE
                             /\ row.name = ""
                    /\ status_history' = status_history
                    /\ StatusesOf(status_history, row.id) = <<>>
                    /\ req'[p].pc = "history"
                    /\ req'[p].memberID = row.id
                    /\ req'[p].currentStatus = ""
          /\ FirstHistoryWritten(p) =>
                /\ StatusesOf(status_history, req[p].memberID) = <<>>
                /\ status_history' =
                      Append(status_history,
                             HistoryRow(req[p].memberID,
                                        MappedStatus[req[p].webhook.status]))
                /\ members' = members
                /\ members[req[p].memberID].status = MappedStatus[req[p].webhook.status]
                /\ req'[p].err = ""]_vars

\* C17 witness: the payload of the claim was the first event of the run and
\* left the member a@b.com, active, anonymous, without a name, and one
\* history row
C17_Witness ==
    /\ variant \in ZapierBuilds
    /\ nreq = 1
    /\ req[SoleHandler].pc = "done"
    /\ req[SoleHandler].err = ""
    /\ req[SoleHandler].failed = {}
    /\ members = <<MemberRow(1, "a@b.com", "", TRUE, "active", 1)>>
    /\ status_history = <<HistoryRow(1, "active")>>

\* the UPDATE of request p has just been applied in a Zapier build
ExistingMemberUpdated(p) ==
    /\ variant \in ZapierBuilds
    /\ UpdateApplied(p)

\* the history statement of a request that updated its member has just run
\* without failing
ChangeHistoryWritten(p) ==
    /\ variant \in ZapierBuilds
    /\ req[p].pc = "history"
    /\ req[p].currentStatus # ""
    /\ req'[p].pc = "done"
    /\ "history" \notin req'[p].failed

\* C18: when an event is reconciled for an existing member, the stored
\* status and anonymity afterwards are the event's values and last_updated
\* is refreshed, whether or not the status changed; a history row is written
\* exactly when the status changed: "Failed" for an active member leaves it
\* cancelled with one new history row.
C18_ExistingMemberTakesEventValues ==
    [][\A p \in Handlers :
          /\ ExistingMemberUpdated(p) =>
                LET w == req[p].webhook IN
                /\ Len(members') = Len(members)
                /\ status_history' = status_history
                /\ \A i \in 1..Len(members) :
                      IF members[i].id = req[p].memberID
                      THEN /\ members'[i].status = MappedStatus[w.status]
                           /\ members'[i].is_anonymous = MappedAnonymity[w.anonymous]
                           /\ members'[i].last_updated = nreq
                           /\ members'[i].last_updated > members[i].last_updated
                           /\ members'[i].email = members[i].email
                           /\ (req'[p].pc = "history")
                                 <=> (members[i].status # MappedStatus[w.status])
                           /\ (req'[p].pc = "done")
                                 <=> (members[i].status = MappedStatus[w.status])
                           /\ (members[i].status = "active" /\ w.status = "Failed")
                                 => /\ members'[i].status = "cancelled"
                                    /\ req'[p].pc = "history"
                      ELSE members'[i] = members[i]
          /\ ChangeHistoryWritten(p) =>
                /\ status_history' =
                      Append(status_history,
                             HistoryRow(req[p].memberID,
                                        MappedStatus[req[p].webhook.status]))
                /\ members' = members
                /\ req'[p].err = ""]_vars

\* C18 witness: "Failed" arrived for an active member: the member is
\* cancelled, refreshed at the second request, with one new history row
C18_Witness ==
    /\ variant \in ZapierBuilds
    /\ nreq = 2
    /\ req[SoleHandler].pc = "done"
    /\ req[SoleHandler].err = ""
    /\ faults = 0
    /\ Len(members) = 1
    /\ members[1].status = "cancelled"
    /\ members[1].last_updated = 2
    /\ status_history = <<HistoryRow(1, "active"), HistoryRow(1, "cancelled")>>

\* a payment already recorded for the payment event request p is serving:
\* the same transaction id in the PayPal build, the same member, amount and
\* donation id of an earlier recurring payment in the donation build
RecordedBefore(p) ==
    {i \in 1..Len(payments) :
        IF variant = "paypal"
        THEN payments[i].transaction_id = req[p].webhook.id
        ELSE payments[i] = PaymentRow(req[p].memberID, req[p].webhook.amount,
                                      req[p].webhook.donation_id,
                                      "Recurring payment")}

\* the payment INSERT of request p has just run without failing
PaymentInsertRan(p) ==
    /\ req[p].pc \in {"pay_insert", "sale_insert"}
    /\ req'[p].pc # req[p].pc
    /\ req'[p].failed = req[p].failed

\* C19 (as claimed): in the monetary builds delivering the same payment
\* event (same transaction/donation id) a second time has the effect of
\* delivering it once: the second INSERT adds no payment row and returns no
\* error, and the total donated of no member is increased for a payment
\* that is recorded twice.
C19_DuplicatePaymentIsNoOp ==
    [][\A p \in Handlers :
          /\ (PaymentInsertRan(p) /\ RecordedBefore(p) # {})
             => /\ payments' = payments
                /\ req'[p].err = ""
          /\ (req[p].pc = "pay_update" /\ Cardinality(RecordedBefore(p)) > 1)
             => \A i \in 1..Len(members) :
                    members'[i].total_donated = members[i].total_donated]_vars

\* the SELECT of request p has just found its member
MemberRead(p) ==
    /\ req[p].pc = "select"
    /\ req'[p].pc = "update"

\* C20: reconciliations for one email are not serialized: the SELECT of a
\* request reads the stored status without holding anything until its
\* UPDATE, and the UPDATE overwrites the status and decides on the history
\* row from the status that was read, whatever another request has stored
\* in between; so two requests for one member can both read before either
\* writes, and the history can end with an entry that is not the stored
\* status (the witness).
C20_HistoryDecidedFromStaleRead ==
    [][\A p \in Handlers :
          /\ MemberRead(p) =>
                /\ storeVars' = storeVars
                /\ \E i \in 1..Len(members) :
                      /\ members[i].id = req'[p].memberID
                      /\ members[i].email = req[p].email
                      /\ req'[p].currentStatus = members[i].status
                /\ \A q \in Handlers \ {p} : req'[q] = req[q]
          /\ UpdateApplied(p) =>
                /\ \A i \in 1..Len(members) :
                      members[i].id = req[p].memberID
                         => members'[i].status = req[p].status
                /\ (req'[p].pc = "history") <=> (req[p].currentStatus # req[p].status)
                /\ (req'[p].pc = "done") <=> (req[p].currentStatus = req[p].status)
          /\ (req[p].pc = "history" /\ req'[p].pc = "done"
                /\ "history" \notin req'[p].failed)
             => status_history' =
                   Append(status_history, HistoryRow(req[p].memberID, req[p].status))]_vars

\* C20 witness: two requests for one existing member overlapped, nothing
\* failed, both were reconciled without error, and the last history entry
\* of the member is not its stored status
C20_Witness ==
    /\ nreq = 3
    /\ faults = 0
    /\ \A p \in Handlers :
          /\ req[p].pc = "done"
          /\ req[p].err = ""
          /\ req[p].failed = {}
          /\ req[p].response = 200
    /\ Len(members) = 1
    /\ Len(status_history) = 3
    /\ status_history[3].member_id = members[1].id
    /\ status_history[3].status # members[1].status

\* request p has just been processed to its end without an error and
\* without a store failure
EventCompleted(p) ==
    /\ ~Free(p)
    /\ req[p].pc # "log"
    /\ req'[p].pc = "done"
    /\ req'[p].err = ""
    /\ req'[p].failed = {}

\* the event request p is serving is of a kind that creates members: every
\* Zapier webhook, a new subscription of the donation build, an activated
\* subscription of the PayPal build
CreatingEvent(p) ==
    \/ variant \in ZapierBuilds
    \/ /\ variant = "donation"
       /\ req[p].webhook.event_type \in {"new_subscription", "new_recurring"}
    \/ /\ variant = "paypal"
       /\ req[p].webhook.event_type = "BILLING.SUBSCRIPTION.ACTIVATED"

\* a row has just been added to the member table, for an email that no
\* stored member had
CreatedForUnseenEmail ==
    /\ Len(members') = Len(members) + 1
    /\ \A i \in 1..Len(members) :
          /\ EmailOf(members[i]) # EmailOf(members'[Len(members')])
          /\ EmailOf(members'[i]) = EmailOf(members[i])

\* C21 (as claimed): with a working store, once the first valid event of
\* any kind for an email has been processed a member with that email exists,
\* and a member is only ever created for an email not yet stored.
C21_AnyEventCreatesMember ==
    [][/\ \A p \in Handlers :
            (EventCompleted(p) /\ req[p].email # "")
            => \E i \in 1..Len(members') : EmailOf(members'[i]) = req[p].email
       /\ Len(members') # Len(members) => CreatedForUnseenEmail]_vars

\* C21 (amended): with a working store, once an event of a creating kind
\* (any Zapier webhook, a new subscription of the donation build, an
\* activated subscription of the PayPal build) has been processed without
\* error, a member the event identifies exists: one with its email or, in
\* the PayPal build, one with its payer id. An event of another kind
\* (payment, cancellation, failed payment, suspension) creates no member,
\* also for an email not yet stored. A member is only ever created for an
\* email not yet stored, so later events for that email change that member.
C21_CreatingEventCreatesMember ==
    [][/\ \A p \in Handlers :
            /\ (EventCompleted(p) /\ CreatingEvent(p))
               => \E i \in 1..Len(members') :
                     \/ EmailOf(members'[i]) = req[p].email
                     \/ /\ variant = "paypal"
                        /\ req[p].payerID # ""
                        /\ members'[i].paypal_payer_id = req[p].payerID
            /\ (~Free(p) /\ ~CreatingEvent(p))
               => /\ Len(members') = Len(members)
                  /\ \A i \in 1..Len(members) :
                        EmailOf(members'[i]) = EmailOf(members[i])
       /\ Len(members') # Len(members) => CreatedForUnseenEmail]_vars

\* C21 witness: in the donation build a payment for an email not yet stored
\* created nothing, a new subscription then created the member, and a later
\* payment was added to that member
C21_Witness ==
    /\ variant = "donation"
    /\ nreq = 3
    /\ faults = 0
    /\ req[SoleHandler].pc = "done"
    /\ Len(webhook_logs) = 3
    /\ webhook_logs[1].event_type = "payment"
    /\ webhook_logs[2].event_type = "new_subscription"
    /\ webhook_logs[3].event_type = "payment"
    /\ \A i \in 1..3 : NormalizedInput[webhook_logs[i].email] = "a@b"
    /\ Len(members) = 1
    /\ members[1].email = "a@b"
    /\ members[1].total_donated = 12
    /\ Len(payments) = 2

\* the builds that look members up by more than one key
MultiKeyBuilds == {"donation", "paypal"}

\* request p is serving an event whose email some stored member has
EmailMatches(p) ==
    /\ variant \in MultiKeyBuilds
    /\ ~Free(p)
    /\ \E i \in 1..Len(members) : EmailOf(members[i]) = req[p].email

\* C22 (as claimed): in the multi-key builds an event selects its member by
\* email first and consults the subscription id / payer id only when no
\* member has the event's email: when some member has the email, the member
\* a SELECT hands to the handler has that email, and a statement changes
\* only rows with that email, leaving a member matched by the secondary id
\* (possibly empty) as it was.
C22_EmailFirstThenSecondaryKey ==
    [][\A p \in Handlers :
          EmailMatches(p) =>
              /\ req'[p].memberID # req[p].memberID /\ req'[p].memberID # 0
                    => EmailOf(members[req'[p].memberID]) = req[p].email
              /\ \A i \in 1..Len(members) :
                    members'[i] # members[i] => EmailOf(members[i]) = req[p].email]_vars

(***************************************************************************)
(* Batch reconciler                                                        *)
(***************************************************************************)
\* a members row is stored under email, compared without case
StoredUnder(email) ==
    {i \in 1..Len(members) : ToLower(members[i].email) = email}

\* the step reads the store and stages a run without error
RunStaged ==
    /\ nreq' # nreq
    /\ batch' # batch
    /\ batch'.err = ""

\* every email a snapshot or the store can name
ReconciledEmails == SnapshotEmails \cup ProjectedEmails

ReportedSets(run) ==
    [toAdd |-> run.toAdd, toActivate |-> run.toActivate,
     toDeactivate |-> run.toDeactivate]

InLine(rows, activeSet) ==
    /\ \A e \in activeSet :
        \E i \in 1..Len(rows) :
            ToLower(rows[i].email) = e /\ rows[i].status = "active"
    /\ \A i \in 1..Len(rows) :
        rows[i].status = "active" => ToLower(rows[i].email) \in activeSet

\* the step ends a live run in which no email failed
LiveRunCompleted ==
    /\ batch' # batch
    /\ batch'.pc = "done"
    /\ ~batch'.dryRun
    /\ batch'.err = ""
    /\ batch'.failed = {}

SignatureOutcomes == {SignatureOk, SignatureBad, Credentials("", "", "")}

\* the request as it stands apart from the verification outcome
WithoutSignature(rq) == [rq EXCEPT !.cred = NoCredentials]

\* the requests the handler record of p can have come from
ArrivedAs(rq) == {r \in PayPalRequests : paypalHandlerStart(r) = rq}

\* C26: whatever the event and the store, the PayPal handler leaves the
\* arrival of a request in the same processing state under every outcome of
\* signature verification; the statements that follow never change or
\* consult the outcome, and a request is answered 200 exactly when it is a
\* POST with a JSON body, verified or not
C26_SignatureDoesNotInfluence ==
    [][variant = "paypal" =>
        /\ nreq' # nreq =>
            /\ ArrivedAs(req'[SoleHandler]) # {}
            /\ \A r \in ArrivedAs(req'[SoleHandler]) :
                \A outcome \in SignatureOutcomes :
                    WithoutSignature(paypalHandlerStart([r EXCEPT !.cred = outcome]))
                        = WithoutSignature(req'[SoleHandler])
        /\ nreq' = nreq => req'[SoleHandler].cred = req[SoleHandler].cred
        /\ req'[SoleHandler].pc = "done" =>
            (req'[SoleHandler].response = 200 <=>
                (req'[SoleHandler].method = "POST" /\ req'[SoleHandler].jsonOk))]_vars

\* the second request, a cancellation whose signature failed verification,
\* was answered 200 and cancelled the member the first request created
C26_Witness ==
    /\ variant = "paypal"
    /\ nreq = 2
    /\ req[SoleHandler].pc = "done"
    /\ req[SoleHandler].cred = SignatureBad
    /\ req[SoleHandler].response = 200
    /\ req[SoleHandler].failed = {}
    /\ \E i \in 1..Len(members) : members[i].subscription_status = "cancelled"

(***************************************************************************)
(* Read endpoints                                                          *)
(***************************************************************************)
\* the request of p was a read that a store error struck
ReadStruck(p) ==
    /\ req[p].pc = "done"
    /\ req[p].route \in {"/stats", "/members"}
    /\ req[p].failed # {}

\* C27: a read of /stats or /members during which a query or the delivery
\* of its rows failed is answered with a server error, never with 200
C27_ReadErrorIsServerError ==
    \A p \in Handlers : ReadStruck(p) => req[p].response = 500

(***************************************************************************)
(* Anonymity                                                               *)
(***************************************************************************)
\* the anonymity texts of the inputs that read "true", "yes" or "1" once
\* trimmed and lower-cased
AnonymousTexts == {"True", "true", " YES ", "1"}

\* C28: for every event they pass on to the store, the normalizers map the
\* anonymity text to true exactly when, trimmed and lower-cased, it is
\* "true", "yes" or "1", and hand over an empty name when it is true and
\* the name sent otherwise
C28_AnonymityMapping ==
    (nout.done /\ nout.err = "") =>
        /\ nout.isAnonymous <=> nin.anonymous \in AnonymousTexts
        /\ nout.name = IF nin.anonymous \in AnonymousTexts THEN "" ELSE nin.name

\* an event sent with a name and the text ' YES ' is stored anonymous and
\* nameless
C28_Witness ==
    /\ nout.done
    /\ nout.err = ""
    /\ nin.anonymous = " YES "
    /\ nin.name = "Jane"
    /\ nout.isAnonymous
    /\ nout.name = ""

(***************************************************************************)
(* Status history across ProcessMember and UpdateMemberStatus              *)
(***************************************************************************)
\* no two neighbours of the sequence are equal
NoRepeat(statuses) ==
    \A k \in 1..(Len(statuses) - 1) : statuses[k] # statuses[k + 1]

\* C29: while no statement fails, the status_history rows of a member never
\* show the same status twice in a row, whether ProcessMember or
\* UpdateMemberStatus wrote them
C29_HistoryOnlyOnChange ==
    (variant = "modular" /\ faults = 0) =>
        \A i \in 1..Len(members) :
            NoRepeat(StatusesOf(status_history, members[i].id))

\* C30: between the calls of a run in which no statement failed, every
\* member of the Zapier builds has a status_history row, and the last row of
\* each member carries the member's stored status
C30_LastHistoryIsStoredStatus ==
    (variant \in ZapierBuilds /\ faults = 0 /\ Quiescent) =>
        \A i \in 1..Len(members) :
            LET statuses == StatusesOf(status_history, members[i].id)
            IN  /\ statuses # <<>>
                /\ statuses[Len(statuses)] = members[i].status

\* a webhook created the member as active and a call of UpdateMemberStatus
\* then cancelled it: the history ends with cancelled
C30_Witness ==
    /\ variant = "modular"
    /\ faults = 0
    /\ nreq = 2
    /\ req[SoleHandler].pc = "done"
    /\ req[SoleHandler].method = ""
    /\ req[SoleHandler].err = ""
    /\ Len(members) = 1
    /\ members[1].status = "cancelled"
    /\ StatusesOf(status_history, 1) = <<"active", "cancelled">>

(***************************************************************************)
(* Donation totals                                                         *)
(***************************************************************************)
\* the sum of the amounts of the payments rows of member id
RECURSIVE PaidBy(_, _)
PaidBy(rows, id) ==
    IF rows = <<>> THEN 0
    ELSE (IF Head(rows).member_id = id THEN Head(rows).amount ELSE 0)
         + PaidBy(Tail(rows), id)

\* C31: between the events of the donation build, failed store writes
\* included, total_donated of every member is the sum of the amounts of
\* the payments rows stored for it
C31_TotalIsSumOfPayments ==
    (variant = "donation" /\ Quiescent) =>
        \A i \in 1..Len(members) :
            members[i].total_donated = PaidBy(payments, members[i].id)

\* goroutine p runs the INSERT INTO payments of handlePayment successfully
PaymentRecorded(p) ==
    /\ req[p].pc = "pay_insert"
    /\ req'[p].pc = "pay_update"

\* goroutine p runs the UPDATE of handlePayment successfully
PaymentCounted(p) ==
    /\ req[p].pc = "pay_update"
    /\ req'[p].pc = "done"
    /\ req'[p].failed = req[p].failed

\* C32: in the donation build, however the statements of concurrent
\* payment events interleave, each event that finds its member appends
\* exactly one payments row and adds exactly its amount to the total_donated
\* the member has at that moment, leaving every other member alone; once
\* all events have completed without store failure total_donated of every
\* member is the sum of its payments rows
C32_ConcurrentPaymentsLoseNothing ==
    [][/\ \A p \in Handlers :
            /\ PaymentRecorded(p) =>
                payments' =
                    Append(payments,
                           PaymentRow(req[p].memberID, req[p].webhook.amount,
                                      req[p].webhook.donation_id,
                                      "Recurring payment"))
            /\ PaymentCounted(p) =>
                /\ Len(members') = Len(members)
                /\ \A i \in 1..Len(members) :
                    members'[i].total_donated =
                        members[i].total_donated
                          + (IF i = req[p].memberID
                             THEN req[p].webhook.amount ELSE 0)
       /\ (Quiescent' /\ faults' = 0) =>
            \A i \in 1..Len(members') :
                members'[i].total_donated = PaidBy(payments', members'[i].id)]_vars

\* two payment events for the member of the first event have both recorded
\* their payment and neither has yet added its amount
C32_Witness ==
    /\ variant = "donation"
    /\ faults = 0
    /\ \A p \in Handlers : req[p].pc = "pay_update" /\ req[p].memberID = 1
    /\ Len(payments) = 3
    /\ members[1].total_donated = 5

(***************************************************************************)
(* Cancelled date                                                          *)
(***************************************************************************)
\* C33: in the donation build a member has a cancelled_date exactly when
\* its status is cancelled
C33_CancelledDateIffCancelled ==
    variant = "donation" =>
        \A i \in 1..Len(members) :
            members[i].cancelled_date <=> members[i].status = "cancelled"

(***************************************************************************)
(* Events that match no member                                             *)
(***************************************************************************)
\* the event types the dispatchers of the two builds know
KnownEventTypes ==
    {"new_subscription", "new_recurring", "cancelled", "subscription_cancelled",
     "payment", "payment_received", "failed", "payment_failed",
     "BILLING.SUBSCRIPTION.ACTIVATED", "BILLING.SUBSCRIPTION.CANCELLED",
     "BILLING.SUBSCRIPTION.SUSPENDED", "BILLING.SUBSCRIPTION.RE-ACTIVATED",
     "PAYMENT.SALE.COMPLETED"}

\* request p stands at the statement that looks for the member of a
\* cancellation, suspension, reactivation, payment or failed payment, and
\* no stored member has the keys of the event
Unmatched(p) ==
    \/ /\ variant = "donation"
       /\ req[p].pc \in {"cancel", "fail_update", "pay_select"}
       /\ \A i \in 1..Len(members) :
            /\ members[i].email # req[p].email
            /\ members[i].subscription_id # req[p].webhook.donation_id
    \/ /\ variant = "paypal"
       /\ req[p].pc \in {"sub_cancel", "sub_suspend", "sub_reactivate"}
       /\ \A i \in 1..Len(members) :
            members[i].current_subscription_id # req[p].subscriptionID
    \/ /\ variant = "paypal"
       /\ req[p].pc = "sale_select"
       /\ \A i \in 1..Len(members) :
            /\ members[i].current_subscription_id # req[p].subscriptionID
            /\ members[i].paypal_payer_id # req[p].payerID

\* the step hands request p, an event of a type no handler takes, to the
\* dispatcher
UnknownTypeDispatched(p) ==
    \/ /\ variant = "donation"
       /\ req[p].pc = "log"
       /\ req[p].webhook.event_type \notin KnownEventTypes
    \/ /\ variant = "paypal"
       /\ nreq' # nreq
       /\ \E r \in ArrivedAs(req'[p]) :
            /\ r.method = "POST"
            /\ r.jsonOk
            /\ r.webhook.event_type \notin KnownEventTypes

\* the request of p ends answered 200, without error unless the statement
\* itself failed
ReportedAsSuccess(p) ==
    /\ req'[p].pc = "done"
    /\ req'[p].response = 200
    /\ req'[p].failed \subseteq {"log"} \cup req[p].failed => req'[p].err = ""

\* C34: in the donation and PayPal builds the statement of a cancellation,
\* suspension, reactivation, payment or failed payment that finds no member
\* under the event's email, subscription id or payer id, and the dispatch
\* of an event of unknown type, leave the member, payment and history
\* tables as they were and end the request as a success
C34_UnmatchedEventIsNoOp ==
    [][\A p \in Handlers :
        ((Unmatched(p) /\ req'[p] # req[p]) \/ UnknownTypeDispatched(p)) =>
            /\ UNCHANGED <<members, payments, status_history, subscription_history>>
            /\ ReportedAsSuccess(p)]_vars

\* the donation build has logged a payment whose email and subscription id
\* no member has, answered it 200 without error, and the one member and its
\* one payment are as the first event left them
C34_Witness ==
    /\ variant = "donation"
    /\ nreq = 2
    /\ faults = 0
    /\ req[SoleHandler].pc = "done"
    /\ req[SoleHandler].response = 200
    /\ req[SoleHandler].err = ""
    /\ Len(webhook_logs) = 2
    /\ webhook_logs[2] = EventLogRow("payment_received", "x@y")
    /\ Len(members) = 1
    /\ members[1].email = "c@d"
    /\ members[1].total_donated = 5
    /\ Len(payments) = 1

(***************************************************************************)
(* Modular and monolithic build                                            *)
(***************************************************************************)
\* both builds have served the same webhooks and none is under way
TwinsLevel ==
    /\ twin.phase = "idle"
    /\ twin.nreq = nreq
    /\ variant = "modular"

\* C35: fed the same authorized webhooks from empty tables, with no failing
\* statement, the modular and the monolithic build hold the same members
\* rows and the same status_history rows after every webhook
C35_BuildsAgreeOnStore ==
    TwinsLevel =>
        /\ members = twin.members
        /\ status_history = twin.status_history

\* both builds have served three webhooks that created two members and
\* changed the status of one
C35_Witness ==
    /\ TwinsLevel
    /\ nreq = 3
    /\ Len(members) = 2
    /\ Len(status_history) = 3
    /\ members = twin.members
    /\ status_history = twin.status_history
    /\ \E i \in 1..Len(members) : members[i].is_anonymous

(***************************************************************************)
(* Listings and anonymity                                                  *)
(***************************************************************************)
\* handler p has returned a listing of members of a Zapier build
Listed(p) ==
    /\ variant \in ZapierBuilds
    /\ req[p].pc = "done"
    /\ req[p].route \in {"/members", "GetRecentMembers"}
    /\ req[p].response # 500
    /\ req[p].err = ""

\* the listed record is that of a member stored as anonymous
OfAnonymousMember(rec) ==
    \E i \in 1..Len(members) :
        members[i].email = rec.email /\ members[i].is_anonymous

\* C36: no listing returned by GetMembers, listMembersHandler or
\* GetRecentMembers carries a name for a member whose anonymity flag is true
C36_ListingsHideAnonymousNames ==
    \A p \in Handlers :
        Listed(p) =>
            \A rec \in req[p].body :
                OfAnonymousMember(rec) => ~rec.hasName /\ rec.name = ""

(***************************************************************************)
(* Subscription history of the PayPal build                                *)
(***************************************************************************)
\* the rows of subscription_history of subscription subscriptionID
HistoryRowsOf(subscriptionID) ==
    {i \in 1..Len(subscription_history) :
        subscription_history[i].subscription_id = subscriptionID}

\* C37: in the PayPal build, when no statement has failed and no event is
\* being served, subscription_history holds at most one row per
\* subscription id, and the row of every member's current subscription
\* exists and carries the member's subscription_status
C37_HistoryFollowsMember ==
    (variant = "paypal" /\ faults = 0 /\ Quiescent) =>
        /\ \A i, j \in 1..Len(subscription_history) :
              subscription_history[i].subscription_id =
                  subscription_history[j].subscription_id => i = j
        /\ \A m \in 1..Len(members) :
              /\ HistoryRowsOf(members[m].current_subscription_id) # {}
              /\ \A i \in HistoryRowsOf(members[m].current_subscription_id) :
                    subscription_history[i].status = members[m].subscription_status

\* two subscriptions have been activated and the member whose current
\* subscription is one of them has been cancelled: two history rows, that of
\* the member's subscription cancelled and ended
C37_Witness ==
    /\ variant = "paypal"
    /\ faults = 0
    /\ Quiescent
    /\ Len(subscription_history) = 2
    /\ \E m \in 1..Len(members) :
          /\ members[m].subscription_status = "cancelled"
          /\ \E i \in HistoryRowsOf(members[m].current_subscription_id) :
                /\ subscription_history[i].status = "cancelled"
                /\ subscription_history[i].ended

=============================================================================
